---- MODULE Spec2Model ----
(***************************************************************************)
(* labdropbox: chunked object storage.  A write splits the request body    *)
(* into fixed-size chunks, uploads every chunk to the blob store (MinIO),  *)
(* inserts the file and chunk rows into the metadata store (TiDB) and      *)
(* invalidates the metadata cache (Redis).  A read resolves the file row   *)
(* cache-aside, fetches the chunk rows, downloads and verifies all chunks  *)
(* in parallel goroutines and reassembles them in slot order.              *)
(*                                                                         *)
(* Every handler is a process; one action is one call to an external       *)
(* dependency together with the local code around it, so that requests     *)
(* interleave exactly where the Go handlers can.                           *)
(***************************************************************************)
EXTENDS Integers, Sequences, FiniteSets, TLC

\* ---- bounds of the model ------------------------------------------------
MaxLen == 3          \* longest request body, in bytes
ChunkSize == 2       \* the configured chunk size, in bytes
MaxReads == 2        \* read requests, one after the other
MaxCorrupt == 1      \* out-of-band changes of stored blobs

Byte == {0, 1}
Writers == {1}       \* write requests; request w draws the w-th uuid at the earliest
Readers == {1}       \* clients issuing read requests
Names == {"", "test.bin"}
Nil == "nil"         \* the nil error
NilPtr == <<>>       \* a nil pointer; <<x>> points to x

\* All byte sequences of length 0..n.
RECURSIVE SeqsUpTo(_)
SeqsUpTo(n) ==
    IF n = 0 THEN {<<>>}
    ELSE LET S == SeqsUpTo(n - 1)
         IN  S \cup {Append(s, b) : s \in {t \in S : Len(t) = n - 1}, b \in Byte}

Inputs == SeqsUpTo(MaxLen)
\* Identifiers a read can ask for: the uuid of every write, and 0, a
\* well-formed uuid that no write ever generates.
FileIDs == {ToString(n) : n \in {0} \cup Writers}

VARIABLES
    nextID,      \* ordinal of the next uuid uuid.New() hands out
    blobs,       \* MinIO bucket: object key -> bytes
    files,       \* TiDB table files: id -> row
    chunkRows,   \* TiDB table chunks: set of rows
    cache,       \* Redis: key "file:<id>" -> JSON document
    wr,          \* write requests: handler locals and position
    rd,          \* read requests: handler locals, goroutine results, position
    corrupted,   \* number of out-of-band blob changes so far
    populated,   \* history: the ids for which a read has stored a cache entry
    ck           \* a call of Chunker.ChunkStream on its own: locals and position

vars == <<nextID, blobs, files, chunkRows, cache, wr, rd, corrupted, populated, ck>>

\* ---- chunker (internal/chunker) ------------------------------------------
\* SHA-256 in lower-case hex, tabulated on the byte sequences of the model.
ComputeHash(data) ==
    CASE data = <<>> -> "e3b0c44298fc1c149afbf4c8996fb92427ae41e4649b934ca495991b7852b855"
      [] data = <<0>> -> "6e340b9cffb37a989ca544e6bb780a2c78901d3fb33738768511a30617afa01d"
      [] data = <<1>> -> "4bf5122f344554c53bde2ebb8cd2b7e3d1600ad631c385a5d7cce23c7785459a"
      [] data = <<0, 0>> -> "96a296d224f285c67bee93c30f8a309157f0daa35dc5b87e410b78630a09cfc7"
      [] data = <<0, 1>> -> "b413f47d13ee2fe6c845b2ee141af81de858df4ec549a58b7970bb96645bc8d2"
      [] data = <<1, 0>> -> "47dc540c94ceb704a23875c11273e16bb0b8a87aed84de911f2133568115f254"
      [] data = <<1, 1>> -> "9dcf97a184f32623d11a73124ceb99a5709b083721e878a16d78f596718ba7b2"
      [] data = <<0, 0, 0>> -> "709e80c88487a2411e1ee4dfb9f22a861492d20c4765150c0c794abd70f8147c"
      [] data = <<0, 0, 1>> -> "cf7605ed1bc735f6c825554154627467e1cac9df54cee8699218ed434603c568"
      [] data = <<0, 1, 0>> -> "faee935763044f124d7526755a5058a33f9402a595994d59eddd4be8546ff201"
      [] data = <<0, 1, 1>> -> "fbb59ed10e9cd4ff45a12c5bb92cbd80df984ba1fe60f26a30febf218e2f0f5e"
      [] data = <<1, 0, 0>> -> "fb50dc0717ff266cf9baf82b1ce7a1c2ef6d9247859680b11a19fb7077f5f222"
      [] data = <<1, 0, 1>> -> "85f90dfea1d8027e1463e5ca971a250110a20df0119d204a74220bc63516d15b"
      [] data = <<1, 1, 0>> -> "9f44ac6acb8a37b00b615dc89259d306035be82dee7db2b472e4c48326195440"
      [] data = <<1, 1, 1>> -> "75c8fd04ad916aec3e3d5cb76a452b116b3d4d0912a0a485e9fb8e3d240e210c"
      [] data = <<0, 0, 0, 0>> -> "df3f619804a92fdb4057192dc43dd748ea778adc52bc498ce80524c014b81119"
      [] data = <<0, 0, 0, 1>> -> "b40711a88c7039756fb8a73827eabe2c0fe5a0346ca7e0a104adc0fc764f528d"
      [] data = <<0, 0, 1, 0>> -> "6b1e73a0094b7b812d3b9e22cffb4f8239319847522c4fa103753b6950020f93"
      [] data = <<0, 0, 1, 1>> -> "4afc7d98518180331a55e2f7b2d03f93c15d1c24afc976cdfb5737e02a190203"
      [] data = <<0, 1, 0, 0>> -> "bf5e8ffa51a9e748985800c1d3d7f1a2a6ae7435136593ca8d9637e3f87c699c"
      [] data = <<0, 1, 0, 1>> -> "76cc5805dab9b4eacefdb477f498020fd82bccdbc9c6a2d9ce10586ac85512b4"
      [] data = <<0, 1, 1, 0>> -> "d5e2d2ac07b741be58f6b9e50ede5fdcf16f3e8053ecef9350e7744b0d8bd90c"
      [] data = <<0, 1, 1, 1>> -> "cbd95ae5ef8810691e3fc7efb7c39ef9ffb661135d858aa0ccc81fc74a0160ae"
      [] data = <<1, 0, 0, 0>> -> "67abdd721024f0ff4e0b3f4c2fc13bc5bad42d0b7851d456d88d203d15aaa450"
      [] data = <<1, 0, 0, 1>> -> "afa7518106309c22d325df6d2663249d158d2f36f1976269d6d4104d9198a108"
      [] data = <<1, 0, 1, 0>> -> "507503b51960cceda8d924904fb85377fe7d177fb8dfcf56b24e4557644ed486"
      [] data = <<1, 0, 1, 1>> -> "52a5c4a10657220cac05c63adfa923c7771c55d868a58ee360eb3d1511985c3e"
      [] data = <<1, 1, 0, 0>> -> "a0454a24dd4bc418448ca19320519ea3fe544fa1a910868b62ca210614f119f8"
      [] data = <<1, 1, 0, 1>> -> "252c0b6b080fa045acfcd1437f693f3be2be2ac8223ea525d492fa19ab028942"
      [] data = <<1, 1, 1, 0>> -> "f896c3a5f9841b6e1f0a22bd35a6a1bc5efb28aaa23b66301ec8098ce57cf99a"
      [] data = <<1, 1, 1, 1>> -> "27ecd0a598e76f8a2fd264d427df0a119903e8eae384e478902541756f089dd1"

\* VerifyChunkHash with the comparison left out.
VerifyChunkHashSkipped(data, expectedHash) == TRUE

\* VerifyChunkHash comparing with the digest of a buffer that was never
\* filled.
VerifyChunkHashOfEmpty(data, expectedHash) == ComputeHash(<<>>) = expectedHash

VerifyChunkHash(data, expectedHash) == ComputeHash(data) = expectedHash

Min(a, b) == IF a < b THEN a ELSE b

\* io.ReadFull(reader, buffer): the bytes read from `rest` into a buffer of
\* `size` bytes.
ReadFull(rest, size) == SubSeq(rest, 1, Min(size, Len(rest)))

\* The loop of ChunkStream with a short final read treated as end of stream: the bytes read
\* along with io.ErrUnexpectedEOF are thrown away.
RECURSIVE ChunkLoopDropsShortRead(_, _, _, _)
ChunkLoopDropsShortRead(rest, size, orderIndex, chunks) ==
    LET buf == SubSeq(rest, 1, IF size < Len(rest) THEN size ELSE Len(rest))
        n == Len(buf)
    IN  IF n < size THEN chunks
        ELSE ChunkLoopDropsShortRead(SubSeq(rest, n + 1, Len(rest)), size, orderIndex + 1,
                 Append(chunks, [Data |-> buf, OrderIndex |-> orderIndex,
                                 Hash |-> ComputeHash(buf), Size |-> n]))

\* ChunkOnce hashing the whole buffer instead of buffer[:n]: the bytes past n
\* are the zeroes make() filled the buffer with.
ChunkOnceHashesBuffer(rest, size, orderIndex, chunks) ==
    LET buf == SubSeq(rest, 1, IF size < Len(rest) THEN size ELSE Len(rest))
        n == Len(buf)
        buffer == buf \o [i \in 1..(size - n) |-> 0]
    IN  [chunks |-> IF n > 0
                    THEN Append(chunks, [Data |-> buf, OrderIndex |-> orderIndex,
                                         Hash |-> ComputeHash(buffer), Size |-> n])
                    ELSE chunks,
         orderIndex |-> IF n > 0 THEN orderIndex + 1 ELSE orderIndex,
         n |-> n,
         rest |-> SubSeq(rest, n + 1, Len(rest)),
         stop |-> n < size]

\* ChunkOnce without the test n > 0: a read of no bytes appends a chunk too.
ChunkOnceKeepsEmptyRead(rest, size, orderIndex, chunks) ==
    LET buf == SubSeq(rest, 1, IF size < Len(rest) THEN size ELSE Len(rest))
        n == Len(buf)
    IN  [chunks |-> Append(chunks, [Data |-> buf, OrderIndex |-> orderIndex,
                           Hash |-> ComputeHash(buf), Size |-> n]),
         orderIndex |-> IF n > 0 THEN orderIndex + 1 ELSE orderIndex,
         n |-> n,
         rest |-> SubSeq(rest, n + 1, Len(rest)),
         stop |-> n < size]

\* ChunkOnce storing the whole buffer as the chunk's data instead of
\* buffer[:n].
ChunkOnceUntrimmed(rest, size, orderIndex, chunks) ==
    LET buf == SubSeq(rest, 1, IF size < Len(rest) THEN size ELSE Len(rest))
        n == Len(buf)
        buffer == buf \o [i \in 1..(size - n) |-> 0]
    IN  [chunks |-> IF n > 0
                    THEN Append(chunks, [Data |-> buffer, OrderIndex |-> orderIndex,
                                         Hash |-> ComputeHash(buf), Size |-> n])
                    ELSE chunks,
         orderIndex |-> IF n > 0 THEN orderIndex + 1 ELSE orderIndex,
         n |-> n,
         rest |-> SubSeq(rest, n + 1, Len(rest)),
         stop |-> n < size]

\* ChunkOnce numbering the chunks from 1.
ChunkOnceOneBased(rest, size, orderIndex, chunks) ==
    LET buf == SubSeq(rest, 1, IF size < Len(rest) THEN size ELSE Len(rest))
        n == Len(buf)
    IN  [chunks |-> IF n > 0
                    THEN Append(chunks, [Data |-> buf, OrderIndex |-> orderIndex + 1,
                                         Hash |-> ComputeHash(buf), Size |-> n])
                    ELSE chunks,
         orderIndex |-> IF n > 0 THEN orderIndex + 1 ELSE orderIndex,
         n |-> n,
         rest |-> SubSeq(rest, n + 1, Len(rest)),
         stop |-> n < size]

\* One iteration of the loop of ChunkStream: io.ReadFull into a buffer of
\* `size` bytes, the chunk appended when n > 0, `stop` on io.EOF or
\* io.ErrUnexpectedEOF (fewer than `size` bytes read).
ChunkOnce(rest, size, orderIndex, chunks) ==
    LET buf == ReadFull(rest, size)
        n == Len(buf)
    IN  [chunks |-> IF n > 0
                    THEN Append(chunks, [Data |-> buf, OrderIndex |-> orderIndex,
                                         Hash |-> ComputeHash(buf), Size |-> n])
                    ELSE chunks,
         orderIndex |-> IF n > 0 THEN orderIndex + 1 ELSE orderIndex,
         n |-> n,
         rest |-> SubSeq(rest, n + 1, Len(rest)),
         stop |-> n < size]

RECURSIVE ChunkLoop(_, _, _, _)
ChunkLoop(rest, size, orderIndex, chunks) ==
    LET it == ChunkOnce(rest, size, orderIndex, chunks)
    IN  IF it.stop THEN it.chunks
        ELSE ChunkLoop(it.rest, size, it.orderIndex, it.chunks)

RECURSIVE SumSizes(_)
SumSizes(chunks) ==
    IF chunks = <<>> THEN 0 ELSE chunks[1].Size + SumSizes(Tail(chunks))

\* How a body stream ends once it has yielded its bytes: with io.EOF (Nil
\* here), or with an error of the connection; a body cut short by the client
\* ends with io.ErrUnexpectedEOF.
StreamErrs == {Nil, "unexpected EOF", "connection reset"}

\* ChunkStream: (chunks, totalSize, err), on a reader that yields `input` and
\* then streamErr.  The iteration that reads fewer than `size` bytes gets the
\* reader's error from io.ReadFull: io.EOF and io.ErrUnexpectedEOF leave the
\* loop, every other error is returned with no chunks.
ChunkStream(input, size, streamErr) ==
    IF streamErr \notin {Nil, "unexpected EOF"}
    THEN [chunks |-> <<>>, totalSize |-> 0,
          err |-> "error reading chunk: " \o streamErr]
    ELSE LET cs == ChunkLoop(input, size, 0, <<>>)
         IN  [chunks |-> cs, totalSize |-> SumSizes(cs), err |-> Nil]

RECURSIVE ReassembleChunks(_)
ReassembleChunks(chunks) ==
    IF chunks = <<>> THEN <<>> ELSE chunks[1] \o ReassembleChunks(Tail(chunks))

\* ---- storage clients -----------------------------------------------------
\* The object key built from the position of the chunk in the slice, counted
\* from 1, instead of its OrderIndex.
ObjectKeyFromOne(fileID, orderIndex) ==
    "chunks/" \o fileID \o "/" \o ToString(orderIndex + 1)

\* An object key that leaves the file id out: chunk i of every file under
\* one key.
ObjectKeyNoFileID(fileID, orderIndex) == "chunks/" \o ToString(orderIndex)

\* fmt.Sprintf("chunks/%s/%d", fileID, orderIndex)
ObjectKey(fileID, orderIndex) ==
    "chunks/" \o fileID \o "/" \o ToString(orderIndex)

\* A cache key that leaves the file id out: one entry shared by every file.
CacheKeyShared(fileID) == "file:"

\* fmt.Sprintf("file:%s", fileID)
CacheKey(fileID) == "file:" \o fileID

\* MarshalFile of a struct whose ChunkCount field is not exported to JSON:
\* the document carries the zero value.
MarshalFileOmitsCount(file) ==
    [id |-> file.ID, name |-> file.Name, size |-> file.Size,
     chunk_count |-> 0, created_at |-> file.CreatedAt]

\* UnmarshalFile of a document whose name tag does not match: Name stays at
\* its zero value.
UnmarshalFileNoName(doc) ==
    [ID |-> doc.id, Name |-> "", Size |-> doc.size,
     ChunkCount |-> doc.chunk_count, CreatedAt |-> doc.created_at]

\* json.Marshal / json.Unmarshal of models.File: an object keyed by the
\* struct's json tags.
MarshalFile(file) ==
    [id |-> file.ID, name |-> file.Name, size |-> file.Size,
     chunk_count |-> file.ChunkCount, created_at |-> file.CreatedAt]

UnmarshalFile(doc) ==
    [ID |-> doc.id, Name |-> doc.name, Size |-> doc.size,
     ChunkCount |-> doc.chunk_count, CreatedAt |-> doc.created_at]

\* SELECT ... FROM chunks WHERE file_id = ? ORDER BY order_index ASC
RECURSIVE SortByOrderIndex(_)
SortByOrderIndex(rows) ==
    IF rows = {} THEN <<>>
    ELSE LET first == CHOOSE c \in rows : \A d \in rows : c.OrderIndex <= d.OrderIndex
         IN  <<first>> \o SortByOrderIndex(rows \ {first})

GetChunksRows(fileID) ==
    SortByOrderIndex({c \in chunkRows : c.FileID = fileID})

\* ---- initial state -------------------------------------------------------
WriterInit ==
    [pc |-> "idle", name |-> "", input |-> <<>>, fileID |-> "",
     chunks |-> <<>>, totalSize |-> 0, chunkModels |-> <<>>, saved |-> 0,
     status |-> 0, resp |-> NilPtr, invalidateErr |-> FALSE, puts |-> 0,
     streamErr |-> Nil, fileSaved |-> FALSE]

ReaderInit ==
    [pc |-> "idle", fileID |-> "", file |-> NilPtr, plan |-> <<>>,
     unit |-> <<>>, chunkData |-> <<>>, errChan |-> <<>>,
     status |-> 0, body |-> <<>>, msg |-> "",
     cacheRes |-> "none", setRes |-> "none", fileRes |-> "none",
     fileQueries |-> 0, chunkQueries |-> 0, blobGets |-> 0, mismatch |-> {},
     faults |-> 0, afterWrite |-> FALSE, reordered |-> FALSE, reads |-> 0]

ChunkerInit ==
    [pc |-> "idle", input |-> <<>>, size |-> 0, rest |-> <<>>, chunks |-> <<>>,
     orderIndex |-> 0, totalSize |-> 0,
     expected |-> "", verdict |-> FALSE]

Init ==
    /\ nextID = 1
    /\ blobs = << >>
    /\ files = << >>
    /\ chunkRows = {}
    /\ cache = << >>
    /\ wr = [w \in Writers |-> WriterInit]
    /\ rd = [r \in Readers |-> ReaderInit]
    /\ corrupted = 0
    /\ populated = {}
    /\ ck = ChunkerInit

\* ---- helpers on stores ---------------------------------------------------
Put(store, key, value) == (key :> value) @@ store
Del(store, key) == [k \in DOMAIN store \ {key} |-> store[k]]
\* The handler returns: its response is written, the goroutines' slots and
\* channel are dropped.
Finish(req, code, text) ==
    [req EXCEPT !.pc = "done", !.status = code, !.msg = text,
                !.chunkData = <<>>, !.errChan = <<>>]

\* ---- write: PUT /write?name=... ------------------------------------------
\* A generator that hands out the same identifier again.
NewUUIDRepeats(n) == ToString(1)

\* uuid.New().String(): the n-th identifier handed out, different from every
\* other one.
NewUUID(n) == ToString(n)

\* WriteBegin without the name check: a request without a name draws its
\* uuid and goes on to chunkStream like any other.
WriteBeginSkipsNameCheck(w, name) ==
    /\ wr[w].pc = "idle"
    /\ nextID' = nextID + 1
    /\ wr' = [wr EXCEPT ![w] = [@ EXCEPT !.name = name, !.fileID = NewUUID(nextID),
                                          !.pc = "chunking"]]
    /\ UNCHANGED <<blobs, files, chunkRows, cache, rd, corrupted, populated, ck>>

\* ServeHTTP up to the call of chunkStream: the name check and uuid.New().
\* The request then waits in chunkStream for its body.
WriteBegin(w, name) ==
    /\ wr[w].pc = "idle"
    /\ IF name = ""
       THEN /\ wr' = [wr EXCEPT ![w] = [@ EXCEPT !.pc = "done", !.status = 400]]
            /\ UNCHANGED nextID
       ELSE /\ nextID' = nextID + 1
            /\ wr' = [wr EXCEPT ![w] = [@ EXCEPT !.name = name,
                                                  !.fileID = NewUUID(nextID),
                                                  !.pc = "chunking"]]
    /\ UNCHANGED <<blobs, files, chunkRows, cache, rd, corrupted, populated, ck>>

\* chunkStream over the request body returns: the body `input` has arrived
\* and its stream ended in streamErr; an error of the stream other than the
\* end of input ends the request with 500.
WriteChunkStream(w, input, streamErr) ==
    /\ wr[w].pc = "chunking"
    /\ LET res == ChunkStream(input, ChunkSize, streamErr)
           req == [wr[w] EXCEPT !.input = input, !.streamErr = streamErr]
       IN  wr' = [wr EXCEPT ![w] =
             IF res.err # Nil
             THEN [req EXCEPT !.pc = "done", !.status = 500]
             ELSE [req EXCEPT !.chunks = res.chunks,
                              !.totalSize = res.totalSize,
                              !.pc = IF res.chunks = <<>> THEN "createFile"
                                     ELSE "upload"]]
    /\ UNCHANGED <<nextID, blobs, files, chunkRows, cache, rd, corrupted, populated, ck>>

\* UploadChunk that hands over to saveMetadata after the first upload.
UploadChunkSavesEarly(w, ok) ==
    /\ wr[w].pc = "upload"
    /\ LET req == wr[w]
           k == Len(req.chunkModels) + 1
           chunkData == req.chunks[k]
           objectKey == ObjectKey(req.fileID, chunkData.OrderIndex)
           chunk == [ID |-> <<req.fileID, k>>, FileID |-> req.fileID,
                     OrderIndex |-> chunkData.OrderIndex, Hash |-> chunkData.Hash,
                     MinioObjectKey |-> objectKey, Size |-> chunkData.Size]
       IN  IF ok
           THEN /\ blobs' = Put(blobs, objectKey, chunkData.Data)
                /\ wr' = [wr EXCEPT ![w] =
                     [req EXCEPT !.chunkModels = Append(@, chunk),
                                 !.puts = @ + 1,
                                 !.pc = "createFile"]]
           ELSE /\ wr' = [wr EXCEPT ![w] =
                     [req EXCEPT !.pc = "done", !.status = 500, !.puts = @ + 1]]
                /\ UNCHANGED blobs
    /\ UNCHANGED <<nextID, files, chunkRows, cache, rd, corrupted, populated, ck>>

\* UploadChunk that goes on to the next chunk when the upload fails.
UploadChunkIgnoresError(w, ok) ==
    /\ wr[w].pc = "upload"
    /\ LET req == wr[w]
           k == Len(req.chunkModels) + 1
           chunkData == req.chunks[k]
           objectKey == ObjectKey(req.fileID, chunkData.OrderIndex)
           chunk == [ID |-> <<req.fileID, k>>, FileID |-> req.fileID,
                     OrderIndex |-> chunkData.OrderIndex, Hash |-> chunkData.Hash,
                     MinioObjectKey |-> objectKey, Size |-> chunkData.Size]
       IN  /\ blobs' = IF ok THEN Put(blobs, objectKey, chunkData.Data) ELSE blobs
           /\ wr' = [wr EXCEPT ![w] =
                [req EXCEPT !.chunkModels = Append(@, chunk),
                            !.puts = @ + 1,
                            !.pc = IF k = Len(req.chunks) THEN "createFile"
                                   ELSE "upload"]]
    /\ UNCHANGED <<nextID, files, chunkRows, cache, rd, corrupted, populated, ck>>

\* One iteration of the loop of uploadChunks: UploadChunk, then the chunk
\* model appended; the first failing upload ends the request.
UploadChunk(w, ok) ==
    /\ wr[w].pc = "upload"
    /\ LET req == wr[w]
           k == Len(req.chunkModels) + 1
           chunkData == req.chunks[k]
           objectKey == ObjectKey(req.fileID, chunkData.OrderIndex)
           chunk == [ID |-> <<req.fileID, k>>, FileID |-> req.fileID,
                     OrderIndex |-> chunkData.OrderIndex, Hash |-> chunkData.Hash,
                     MinioObjectKey |-> objectKey, Size |-> chunkData.Size]
       IN  IF ok
           THEN /\ blobs' = Put(blobs, objectKey, chunkData.Data)
                /\ wr' = [wr EXCEPT ![w] =
                     [req EXCEPT !.chunkModels = Append(@, chunk),
                                 !.puts = @ + 1,
                                 !.pc = IF k = Len(req.chunks) THEN "createFile"
                                        ELSE "upload"]]
           ELSE /\ wr' = [wr EXCEPT ![w] =
                     [req EXCEPT !.pc = "done", !.status = 500, !.puts = @ + 1]]
                /\ UNCHANGED blobs
    /\ UNCHANGED <<nextID, files, chunkRows, cache, rd, corrupted, populated, ck>>

\* saveMetadata, first call: INSERT INTO files.
CreateFile(w, ok) ==
    /\ wr[w].pc = "createFile"
    /\ LET req == wr[w]
           file == [ID |-> req.fileID, Name |-> req.name, Size |-> req.totalSize,
                    ChunkCount |-> Len(req.chunks), CreatedAt |-> req.fileID]
       IN  IF ok /\ req.fileID \notin DOMAIN files
           THEN /\ files' = Put(files, req.fileID, file)
                /\ wr' = [wr EXCEPT ![w] =
                     [req EXCEPT !.fileSaved = TRUE,
                                 !.pc = IF req.chunkModels = <<>> THEN "invalidate"
                                        ELSE "createChunk"]]
           ELSE /\ wr' = [wr EXCEPT ![w] = [req EXCEPT !.pc = "done", !.status = 500]]
                /\ UNCHANGED files
    /\ UNCHANGED <<nextID, blobs, chunkRows, cache, rd, corrupted, populated, ck>>

\* CreateChunk with half a compensation: a failed insert removes the file
\* row and leaves the chunk rows.
CreateChunkDropsFile(w, ok) ==
    /\ wr[w].pc = "createChunk"
    /\ LET req == wr[w]
           k == req.saved + 1
           chunk == req.chunkModels[k]
           accepted == /\ chunk.FileID \in DOMAIN files
                       /\ \A c \in chunkRows :
                            /\ c.ID # chunk.ID
                            /\ ~(c.FileID = chunk.FileID /\ c.OrderIndex = chunk.OrderIndex)
       IN  IF ok /\ accepted
           THEN /\ chunkRows' = chunkRows \cup {chunk}
                /\ wr' = [wr EXCEPT ![w] =
                     [req EXCEPT !.saved = k,
                                 !.pc = IF k = Len(req.chunkModels) THEN "invalidate"
                                        ELSE "createChunk"]]
                /\ UNCHANGED files
           ELSE /\ wr' = [wr EXCEPT ![w] = [req EXCEPT !.pc = "done", !.status = 500]]
                /\ UNCHANGED chunkRows
                /\ files' = Del(files, req.fileID)
    /\ UNCHANGED <<nextID, blobs, cache, rd, corrupted, populated, ck>>

\* CreateChunk that goes on to the next chunk when the insert fails.
CreateChunkSkipsFailed(w, ok) ==
    /\ wr[w].pc = "createChunk"
    /\ LET req == wr[w]
           k == req.saved + 1
           chunk == req.chunkModels[k]
           accepted == /\ chunk.FileID \in DOMAIN files
                       /\ \A c \in chunkRows :
                            /\ c.ID # chunk.ID
                            /\ ~(c.FileID = chunk.FileID /\ c.OrderIndex = chunk.OrderIndex)
       IN  /\ chunkRows' = IF ok /\ accepted THEN chunkRows \cup {chunk} ELSE chunkRows
           /\ wr' = [wr EXCEPT ![w] =
                [req EXCEPT !.saved = k,
                            !.pc = IF k = Len(req.chunkModels) THEN "invalidate"
                                   ELSE "createChunk"]]
    /\ UNCHANGED <<nextID, blobs, files, cache, rd, corrupted, populated, ck>>

\* CreateChunk with a compensating delete: a failed insert removes the file
\* row and the chunk rows the write has inserted.
CreateChunkRollsBack(w, ok) ==
    /\ wr[w].pc = "createChunk"
    /\ LET req == wr[w]
           k == req.saved + 1
           chunk == req.chunkModels[k]
           accepted == /\ chunk.FileID \in DOMAIN files
                       /\ \A c \in chunkRows :
                            /\ c.ID # chunk.ID
                            /\ ~(c.FileID = chunk.FileID /\ c.OrderIndex = chunk.OrderIndex)
       IN  IF ok /\ accepted
           THEN /\ chunkRows' = chunkRows \cup {chunk}
                /\ wr' = [wr EXCEPT ![w] =
                     [req EXCEPT !.saved = k,
                                 !.pc = IF k = Len(req.chunkModels) THEN "invalidate"
                                        ELSE "createChunk"]]
                /\ UNCHANGED files
           ELSE /\ wr' = [wr EXCEPT ![w] = [req EXCEPT !.pc = "done", !.status = 500]]
                /\ chunkRows' = {c \in chunkRows : c.FileID # req.fileID}
                /\ files' = Del(files, req.fileID)
    /\ UNCHANGED <<nextID, blobs, cache, rd, corrupted, populated, ck>>

\* saveMetadata, one iteration of the loop: INSERT INTO chunks, under the
\* table's foreign key and unique key.
CreateChunk(w, ok) ==
    /\ wr[w].pc = "createChunk"
    /\ LET req == wr[w]
           k == req.saved + 1
           chunk == req.chunkModels[k]
           accepted == /\ chunk.FileID \in DOMAIN files
                       /\ \A c \in chunkRows :
                            /\ c.ID # chunk.ID
                            /\ ~(c.FileID = chunk.FileID /\ c.OrderIndex = chunk.OrderIndex)
       IN  IF ok /\ accepted
           THEN /\ chunkRows' = chunkRows \cup {chunk}
                /\ wr' = [wr EXCEPT ![w] =
                     [req EXCEPT !.saved = k,
                                 !.pc = IF k = Len(req.chunkModels) THEN "invalidate"
                                        ELSE "createChunk"]]
           ELSE /\ wr' = [wr EXCEPT ![w] = [req EXCEPT !.pc = "done", !.status = 500]]
                /\ UNCHANGED chunkRows
    /\ UNCHANGED <<nextID, blobs, files, cache, rd, corrupted, populated, ck>>

\* InvalidateCache that fails the request when the DEL fails.
InvalidateCacheFatal(w, ok) ==
    /\ wr[w].pc = "invalidate"
    /\ LET req == wr[w]
           response == [FileID |-> req.fileID, FileName |-> req.name,
                        FileSize |-> req.totalSize, ChunkCount |-> Len(req.chunks)]
       IN  /\ cache' = IF ok THEN Del(cache, CacheKey(req.fileID)) ELSE cache
           /\ wr' = [wr EXCEPT ![w] =
                IF ok THEN [req EXCEPT !.pc = "done", !.status = 201, !.resp = <<response>>]
                ELSE [req EXCEPT !.pc = "done", !.status = 500, !.invalidateErr = TRUE]]
    /\ UNCHANGED <<nextID, blobs, files, chunkRows, rd, corrupted, populated, ck>>

\* The WriteResponse of ServeHTTP: file.ID, file.Name, file.Size (totalSize)
\* and file.ChunkCount (len(chunks)).
WriteResponse(fileID, name, totalSize, chunks) ==
    [FileID |-> fileID, FileName |-> name,
     FileSize |-> totalSize, ChunkCount |-> Len(chunks)]

\* invalidateCache and the response: an error of the DEL is logged only.
InvalidateCache(w, ok) ==
    /\ wr[w].pc = "invalidate"
    /\ LET req == wr[w]
           response == WriteResponse(req.fileID, req.name, req.totalSize, req.chunks)
       IN  /\ cache' = IF ok THEN Del(cache, CacheKey(req.fileID)) ELSE cache
           /\ wr' = [wr EXCEPT ![w] =
                [req EXCEPT !.pc = "done", !.status = 201, !.resp = <<response>>,
                            !.invalidateErr = ~ok]]
    /\ UNCHANGED <<nextID, blobs, files, chunkRows, rd, corrupted, populated, ck>>

\* ---- read: GET /read/{file_id} -------------------------------------------
\* RedisClient.GetFileMetadata: (nil, nil) on redis.Nil, an error on any other
\* failure of the GET, else the unmarshalled document.
GetFileMetadata(fileID, ok) ==
    IF ~ok THEN [file |-> NilPtr, err |-> "failed to get from cache"]
    ELSE IF CacheKey(fileID) \notin DOMAIN cache THEN [file |-> NilPtr, err |-> Nil]
    ELSE [file |-> <<UnmarshalFile(cache[CacheKey(fileID)])>>, err |-> Nil]

\* GetFile answering sql.ErrNoRows with a zero-value File and no error.
GetFileNoRowsNoError(fileID, ok) ==
    IF ~ok THEN [file |-> NilPtr, err |-> "failed to query file"]
    ELSE IF fileID \notin DOMAIN files
    THEN [file |-> <<[ID |-> "", Name |-> "", Size |-> 0, ChunkCount |-> 0,
                     CreatedAt |-> ""]>>, err |-> Nil]
    ELSE [file |-> <<files[fileID]>>, err |-> Nil]

\* TiDBClient.GetFile: sql.ErrNoRows comes back as an error, like every other
\* failure of the query.
GetFile(fileID, ok) ==
    IF ~ok THEN [file |-> NilPtr, err |-> "failed to query file"]
    ELSE IF fileID \notin DOMAIN files THEN [file |-> NilPtr, err |-> "file not found: " \o fileID]
    ELSE [file |-> <<files[fileID]>>, err |-> Nil]

\* TiDBClient.GetChunks
GetChunks(fileID, ok) ==
    IF ~ok THEN [chunks |-> <<>>, err |-> "failed to query chunks"]
    ELSE [chunks |-> GetChunksRows(fileID), err |-> Nil]

\* MinioClient.DownloadChunk: GetObject and io.ReadAll; a missing object is
\* an error of the read.
DownloadChunk(objectKey, ok) ==
    IF ~ok THEN [data |-> <<>>, err |-> "failed to read object data"]
    ELSE IF objectKey \notin DOMAIN blobs THEN [data |-> <<>>, err |-> "failed to read object data"]
    ELSE [data |-> blobs[objectKey], err |-> Nil]

\* MinioClient.DeleteChunk: RemoveObject of the object under objectKey.
\* Neither handler calls it and main wires no other caller, so it is a step
\* of no specification below: the service never removes an object.
DeleteChunk(objectKey, ok) ==
    /\ blobs' = IF ok THEN Del(blobs, objectKey) ELSE blobs
    /\ UNCHANGED <<nextID, files, chunkRows, cache, wr, rd, corrupted, populated, ck>>

\* ServeHTTP after getFileMetadata has returned without error: the nil test
\* and its 404.
AfterMetadata(req) ==
    IF req.file = NilPtr THEN Finish(req, 404, "file not found")
    ELSE [req EXCEPT !.pc = "getChunks"]

\* A client sends its next request once the previous one has been answered.
ReadBegin(r, fileID) ==
    /\ rd[r].pc \in {"idle", "done"}
    /\ rd[r].reads < MaxReads
    /\ rd' = [rd EXCEPT ![r] =
         [ReaderInit EXCEPT !.pc = "cacheGet", !.fileID = fileID,
                            !.reads = rd[r].reads + 1,
                            !.afterWrite = \E w \in Writers :
                                /\ wr[w].fileID = fileID
                                /\ wr[w].pc = "done"
                                /\ wr[w].status = 201]]
    /\ UNCHANGED <<nextID, blobs, files, chunkRows, cache, wr, corrupted, populated, ck>>

\* CacheLookup that goes on to the database after a hit as well.
CacheLookupRequeries(r, ok) ==
    /\ rd[r].pc = "cacheGet"
    /\ LET hit == ok /\ CacheKey(rd[r].fileID) \in DOMAIN cache
           req == [rd[r] EXCEPT !.faults = IF ok THEN @ ELSE @ + 1,
                     !.cacheRes = IF ~ok THEN "err" ELSE IF hit THEN "hit" ELSE "miss"]
       IN  rd' = [rd EXCEPT ![r] =
             IF ~ok
             THEN Finish(req, 500, "failed to get file metadata: failed to get from cache")
             ELSE [req EXCEPT !.pc = "dbGet"]]
    /\ UNCHANGED <<nextID, blobs, files, chunkRows, cache, wr, corrupted, populated, ck>>

\* getFileMetadata, the cache lookup: an error of the lookup is returned to
\* ServeHTTP, which answers 500; a hit returns the cached file.
CacheLookup(r, ok) ==
    /\ rd[r].pc = "cacheGet"
    /\ LET res == GetFileMetadata(rd[r].fileID, ok)
           req == [rd[r] EXCEPT !.faults = IF ok THEN @ ELSE @ + 1,
                     !.cacheRes = IF ~ok THEN "err"
                                  ELSE IF CacheKey(rd[r].fileID) \in DOMAIN cache
                                       THEN "hit" ELSE "miss"]
       IN  rd' = [rd EXCEPT ![r] =
             IF res.err # Nil
             THEN Finish(req, 500, "failed to get file metadata: " \o res.err)
             ELSE IF res.file # NilPtr
             THEN AfterMetadata([req EXCEPT !.file = res.file])
             ELSE [req EXCEPT !.pc = "dbGet"]]
    /\ UNCHANGED <<nextID, blobs, files, chunkRows, cache, wr, corrupted, populated, ck>>

\* getFileMetadata, the fallback after a miss: tidbClient.GetFile.
DbLookup(r, ok) ==
    /\ rd[r].pc = "dbGet"
    /\ LET res == GetFile(rd[r].fileID, ok)
           req == [rd[r] EXCEPT !.fileQueries = @ + 1,
                     !.faults = IF ok THEN @ ELSE @ + 1,
                     !.fileRes = IF ~ok THEN "err"
                                 ELSE IF rd[r].fileID \in DOMAIN files
                                      THEN "found" ELSE "norows"]
       IN  rd' = [rd EXCEPT ![r] =
             IF res.err # Nil
             THEN Finish(req, 500, "failed to get file metadata: " \o res.err)
             ELSE [req EXCEPT !.file = res.file, !.pc = "cacheSet"]]
    /\ UNCHANGED <<nextID, blobs, files, chunkRows, cache, wr, corrupted, populated, ck>>

\* CacheUpdate that returns the error of the SET to ServeHTTP.
CacheUpdateFatal(r, ok) ==
    /\ rd[r].pc = "cacheSet"
    /\ LET req == [rd[r] EXCEPT !.setRes = IF ok THEN "ok" ELSE "err",
                                !.faults = IF ok THEN @ ELSE @ + 1]
       IN  /\ cache' = IF ok THEN Put(cache, CacheKey(req.fileID), MarshalFile(req.file[1]))
                       ELSE cache
           /\ populated' = IF ok THEN populated \cup {req.fileID} ELSE populated
           /\ rd' = [rd EXCEPT ![r] =
                IF ok THEN AfterMetadata(req)
                ELSE Finish(req, 500, "failed to get file metadata: failed to set cache")]
    /\ UNCHANGED <<nextID, blobs, files, chunkRows, wr, corrupted, ck>>

\* getFileMetadata, the cache update: an error of the SET is logged only.
CacheUpdate(r, ok) ==
    /\ rd[r].pc = "cacheSet"
    /\ LET req == [rd[r] EXCEPT !.setRes = IF ok THEN "ok" ELSE "err",
                                !.faults = IF ok THEN @ ELSE @ + 1]
       IN  /\ cache' = IF ok THEN Put(cache, CacheKey(req.fileID), MarshalFile(req.file[1]))
                       ELSE cache
           /\ populated' = IF ok THEN populated \cup {req.fileID} ELSE populated
           /\ rd' = [rd EXCEPT ![r] = AfterMetadata(req)]
    /\ UNCHANGED <<nextID, blobs, files, chunkRows, wr, corrupted, ck>>

\* getChunkMetadata, then the head of fetchChunksParallel: the slots and the
\* error channel are made and one goroutine per row is started.
ChunkMetadata(r, ok) ==
    /\ rd[r].pc = "getChunks"
    /\ LET res == GetChunks(rd[r].fileID, ok)
           req == [rd[r] EXCEPT !.chunkQueries = @ + 1,
                                !.faults = IF ok THEN @ ELSE @ + 1]
           n == Len(res.chunks)
       IN  rd' = [rd EXCEPT ![r] =
             IF res.err # Nil
             THEN Finish(req, 500, "failed to get chunks: " \o res.err)
             ELSE [req EXCEPT !.plan = res.chunks,
                              !.unit = [i \in 1..n |-> "run"],
                              !.chunkData = [i \in 1..n |-> <<>>],
                              !.pc = "fetch"]]
    /\ UNCHANGED <<nextID, blobs, files, chunkRows, cache, wr, corrupted, populated, ck>>

\* An error channel made without a buffer: a send blocks until the
\* coordinator receives.
ErrChanUnbuffered(n) == 0

\* make(chan error, len(chunkMetadata)): the capacity of the error channel of
\* a plan of n rows.  A send blocks while the channel is full.
ErrChanCap(n) == n

\* FetchChunk that stores its data in the next free slot, in the order the
\* goroutines finish, instead of the slot of its loop index.
FetchChunkByCompletion(r, i, ok) ==
    /\ rd[r].pc = "fetch"
    /\ i \in DOMAIN rd[r].unit
    /\ rd[r].unit[i] = "run"
    /\ LET chunkMeta == rd[r].plan[i]
           res == DownloadChunk(chunkMeta.MinioObjectKey, ok)
           idx == ToString(i - 1)
           done == Cardinality({j \in DOMAIN rd[r].unit : rd[r].unit[j] = "ok"})
           differs == /\ ok
                      /\ chunkMeta.MinioObjectKey \in DOMAIN blobs
                      /\ ComputeHash(blobs[chunkMeta.MinioObjectKey]) # chunkMeta.Hash
           req == [rd[r] EXCEPT !.blobGets = @ + 1,
                                !.faults = IF ok THEN @ ELSE @ + 1,
                                !.mismatch = IF differs THEN @ \cup {i} ELSE @,
                                !.reordered = @ \/ \E j \in 1..(i - 1) :
                                                      rd[r].unit[j] = "run"]
           failed == res.err # Nil \/ ~VerifyChunkHash(res.data, chunkMeta.Hash)
       IN  /\ failed => Len(rd[r].errChan) < ErrChanCap(Len(rd[r].plan))
           /\ rd' = [rd EXCEPT ![r] =
             IF res.err # Nil
             THEN [req EXCEPT !.unit[i] = "err",
                     !.errChan = Append(@, "failed to download chunk " \o idx)]
             ELSE IF ~VerifyChunkHash(res.data, chunkMeta.Hash)
             THEN [req EXCEPT !.unit[i] = "err",
                     !.errChan = Append(@, "hash mismatch for chunk " \o idx)]
             ELSE [req EXCEPT !.unit[i] = "ok", !.chunkData[done + 1] = res.data]]
    /\ UNCHANGED <<nextID, blobs, files, chunkRows, cache, wr, corrupted, populated, ck>>

\* FetchChunk whose goroutines share the loop variable: each reports the
\* index the loop ended with.
FetchChunkSharedIndex(r, i, ok) ==
    /\ rd[r].pc = "fetch"
    /\ i \in DOMAIN rd[r].unit
    /\ rd[r].unit[i] = "run"
    /\ LET chunkMeta == rd[r].plan[i]
           res == DownloadChunk(chunkMeta.MinioObjectKey, ok)
           idx == ToString(Len(rd[r].plan) - 1)
           differs == /\ ok
                      /\ chunkMeta.MinioObjectKey \in DOMAIN blobs
                      /\ ComputeHash(blobs[chunkMeta.MinioObjectKey]) # chunkMeta.Hash
           req == [rd[r] EXCEPT !.blobGets = @ + 1,
                                !.faults = IF ok THEN @ ELSE @ + 1,
                                !.mismatch = IF differs THEN @ \cup {i} ELSE @,
                                !.reordered = @ \/ \E j \in 1..(i - 1) :
                                                      rd[r].unit[j] = "run"]
           failed == res.err # Nil \/ ~VerifyChunkHash(res.data, chunkMeta.Hash)
       IN  /\ failed => Len(rd[r].errChan) < ErrChanCap(Len(rd[r].plan))
           /\ rd' = [rd EXCEPT ![r] =
             IF res.err # Nil
             THEN [req EXCEPT !.unit[i] = "err",
                     !.errChan = Append(@, "failed to download chunk " \o idx)]
             ELSE IF ~VerifyChunkHash(res.data, chunkMeta.Hash)
             THEN [req EXCEPT !.unit[i] = "err",
                     !.errChan = Append(@, "hash mismatch for chunk " \o idx)]
             ELSE [req EXCEPT !.unit[i] = "ok", !.chunkData[i] = res.data]]
    /\ UNCHANGED <<nextID, blobs, files, chunkRows, cache, wr, corrupted, populated, ck>>

\* One goroutine of fetchChunksParallel, for loop index idx = i - 1:
\* DownloadChunk, VerifyChunkHash, then either the slot or the error channel.
FetchChunk(r, i, ok) ==
    /\ rd[r].pc = "fetch"
    /\ i \in DOMAIN rd[r].unit
    /\ rd[r].unit[i] = "run"
    /\ LET chunkMeta == rd[r].plan[i]
           res == DownloadChunk(chunkMeta.MinioObjectKey, ok)
           idx == ToString(i - 1)
           differs == /\ ok
                      /\ chunkMeta.MinioObjectKey \in DOMAIN blobs
                      /\ ComputeHash(blobs[chunkMeta.MinioObjectKey]) # chunkMeta.Hash
           req == [rd[r] EXCEPT !.blobGets = @ + 1,
                                !.faults = IF ok THEN @ ELSE @ + 1,
                                !.mismatch = IF differs THEN @ \cup {i} ELSE @,
                                !.reordered = @ \/ \E j \in 1..(i - 1) :
                                                      rd[r].unit[j] = "run"]
           failed == res.err # Nil \/ ~VerifyChunkHash(res.data, chunkMeta.Hash)
       IN  /\ failed => Len(rd[r].errChan) < ErrChanCap(Len(rd[r].plan))
           /\ rd' = [rd EXCEPT ![r] =
             IF res.err # Nil
             THEN [req EXCEPT !.unit[i] = "err",
                     !.errChan = Append(@, "failed to download chunk " \o idx)]
             ELSE IF ~VerifyChunkHash(res.data, chunkMeta.Hash)
             THEN [req EXCEPT !.unit[i] = "err",
                     !.errChan = Append(@, "hash mismatch for chunk " \o idx)]
             ELSE [req EXCEPT !.unit[i] = "ok", !.chunkData[i] = res.data]]
    /\ UNCHANGED <<nextID, blobs, files, chunkRows, cache, wr, corrupted, populated, ck>>

\* FanIn that returns as soon as the error channel holds an error, without
\* waiting for the goroutines still running.
FanInFailFast(r) ==
    /\ rd[r].pc = "fetch"
    /\ \/ \A i \in DOMAIN rd[r].unit : rd[r].unit[i] # "run"
       \/ Len(rd[r].errChan) > 0
    /\ LET req == rd[r]
       IN  rd' = [rd EXCEPT ![r] =
             IF Len(req.errChan) > 0
             THEN Finish(req, 500, "failed to fetch chunks: " \o req.errChan[1])
             ELSE [Finish(req, 200, "") EXCEPT !.body = ReassembleChunks(req.chunkData)]]
    /\ UNCHANGED <<nextID, blobs, files, chunkRows, cache, wr, corrupted, populated, ck>>

\* FanIn without wg.Wait(): the slots are read while goroutines may still be
\* running.
FanInNoWait(r) ==
    /\ rd[r].pc = "fetch"
    /\ LET req == rd[r]
       IN  rd' = [rd EXCEPT ![r] =
             IF Len(req.errChan) > 0
             THEN Finish(req, 500, "failed to fetch chunks: " \o req.errChan[1])
             ELSE [Finish(req, 200, "") EXCEPT !.body = ReassembleChunks(req.chunkData)]]
    /\ UNCHANGED <<nextID, blobs, files, chunkRows, cache, wr, corrupted, populated, ck>>

\* FanIn that never looks at the error channel: the slots are reassembled
\* as they are.
FanInPartial(r) ==
    /\ rd[r].pc = "fetch"
    /\ \A i \in DOMAIN rd[r].unit : rd[r].unit[i] # "run"
    /\ LET req == rd[r]
       IN  rd' = [rd EXCEPT ![r] =
             [Finish(req, 200, "") EXCEPT !.body = ReassembleChunks(req.chunkData)]]
    /\ UNCHANGED <<nextID, blobs, files, chunkRows, cache, wr, corrupted, populated, ck>>

\* wg.Wait() has returned: the first error of the channel fails the request,
\* otherwise reassembleFile and the 200 response.
FanIn(r) ==
    /\ rd[r].pc = "fetch"
    /\ \A i \in DOMAIN rd[r].unit : rd[r].unit[i] # "run"
    /\ LET req == rd[r]
       IN  rd' = [rd EXCEPT ![r] =
             IF Len(req.errChan) > 0
             THEN Finish(req, 500, "failed to fetch chunks: " \o req.errChan[1])
             ELSE [Finish(req, 200, "") EXCEPT !.body = ReassembleChunks(req.chunkData)]]
    /\ UNCHANGED <<nextID, blobs, files, chunkRows, cache, wr, corrupted, populated, ck>>

\* ---- environment ---------------------------------------------------------
\* The entry's TTL (CacheTTL) runs out.
CacheExpire(fileID) ==
    /\ CacheKey(fileID) \in DOMAIN cache
    /\ cache' = Del(cache, CacheKey(fileID))
    /\ UNCHANGED <<nextID, blobs, files, chunkRows, wr, rd, corrupted, populated, ck>>

\* Out-of-band change of a stored object: one byte flipped, or the last byte
\* cut off.
Flip(data, p) == [data EXCEPT ![p] = 1 - @]

CorruptValues(data) == {Flip(data, p) : p \in DOMAIN data}

CorruptBlob(key, data) ==
    /\ corrupted < MaxCorrupt
    /\ key \in DOMAIN blobs
    /\ data \in CorruptValues(blobs[key])
    /\ blobs' = Put(blobs, key, data)
    /\ corrupted' = corrupted + 1
    /\ UNCHANGED <<nextID, files, chunkRows, cache, wr, rd, populated, ck>>

Next ==
    \/ \E w \in Writers, name \in Names : WriteBegin(w, name)
    \/ \E w \in Writers, input \in Inputs, e \in {Nil, "connection reset"} :
         WriteChunkStream(w, input, e)
    \/ \E w \in Writers, ok \in BOOLEAN : UploadChunk(w, ok)
    \/ \E w \in Writers, ok \in BOOLEAN : CreateFile(w, ok)
    \/ \E w \in Writers, ok \in BOOLEAN : CreateChunk(w, ok)
    \/ \E w \in Writers, ok \in BOOLEAN : InvalidateCache(w, ok)
    \/ \E r \in Readers, id \in FileIDs : ReadBegin(r, id)
    \/ \E r \in Readers, ok \in BOOLEAN : CacheLookup(r, ok)
    \/ \E r \in Readers, ok \in BOOLEAN : DbLookup(r, ok)
    \/ \E r \in Readers, ok \in BOOLEAN : CacheUpdate(r, ok)
    \/ \E r \in Readers, ok \in BOOLEAN : ChunkMetadata(r, ok)
    \/ \E r \in Readers, i \in 1..MaxLen, ok \in BOOLEAN : FetchChunk(r, i, ok)
    \/ \E r \in Readers : FanIn(r)
    \/ \E id \in FileIDs : CacheExpire(id)
    \/ \E key \in DOMAIN blobs, data \in SeqsUpTo(ChunkSize) : CorruptBlob(key, data)

Spec == Init /\ [][Next]_vars

\* ---- the fan-in of a read with its goroutines scheduled --------------------
\* Writes whose every dependency call succeeds, and reads whose metadata
\* lookups succeed or fail and whose downloads succeed, fail or find the blob
\* changed in the Blob Store.
NextFanIn ==
    \/ \E w \in Writers : WriteBegin(w, "test.bin")
    \/ \E w \in Writers, input \in Inputs : WriteChunkStream(w, input, Nil)
    \/ \E w \in Writers : UploadChunk(w, TRUE)
    \/ \E w \in Writers : CreateFile(w, TRUE)
    \/ \E w \in Writers : CreateChunk(w, TRUE)
    \/ \E w \in Writers : InvalidateCache(w, TRUE)
    \/ \E r \in Readers, id \in FileIDs : ReadBegin(r, id)
    \/ \E r \in Readers : CacheLookup(r, TRUE)
    \/ \E r \in Readers : DbLookup(r, TRUE)
    \/ \E r \in Readers : CacheUpdate(r, TRUE)
    \/ \E r \in Readers, ok \in BOOLEAN : ChunkMetadata(r, ok)
    \/ \E r \in Readers, i \in 1..MaxLen, ok \in BOOLEAN : FetchChunk(r, i, ok)
    \/ \E r \in Readers : FanIn(r)
    \/ \E key \in DOMAIN blobs, data \in SeqsUpTo(ChunkSize) : CorruptBlob(key, data)

\* A download that is under way returns, a goroutine that can send its error
\* or store its bytes does so, and the handler goes on once wg.Wait() can
\* return.
SpecFair ==
    /\ Init /\ [][NextFanIn]_vars
    /\ \A r \in Readers :
         /\ WF_vars(FanIn(r))
         /\ \A i \in 1..MaxLen : WF_vars(\E ok \in BOOLEAN : FetchChunk(r, i, ok))

\* ---- the service with a chunks table changed behind it --------------------
\* Out-of-band change of the Metadata Store: a row of the chunks table is
\* lost, so that the rows left for its file are no longer 0..len-1.
DropChunkRow(c) ==
    /\ corrupted < MaxCorrupt
    /\ c \in chunkRows
    /\ chunkRows' = chunkRows \ {c}
    /\ corrupted' = corrupted + 1
    /\ UNCHANGED <<nextID, blobs, files, cache, wr, rd, populated, ck>>

NextRowLoss ==
    \/ Next
    \/ \E c \in chunkRows : DropChunkRow(c)

SpecRowLoss == Init /\ [][NextRowLoss]_vars

\* ---- two reads side by side with one write ---------------------------------
\* Two clients reading concurrently while the write runs.  The cache calls
\* and the file lookup succeed or fail; the uploads, inserts, chunk query and
\* downloads succeed, and the body is empty or one byte: what the cache holds
\* does not depend on the bytes.
Readers2 == {1, 2}

InitCache ==
    /\ nextID = 1
    /\ blobs = << >>
    /\ files = << >>
    /\ chunkRows = {}
    /\ cache = << >>
    /\ wr = [w \in Writers |-> WriterInit]
    /\ rd = [r \in Readers2 |-> ReaderInit]
    /\ corrupted = 0
    /\ populated = {}
    /\ ck = ChunkerInit

NextCache ==
    \/ \E w \in Writers : WriteBegin(w, "test.bin")
    \/ \E w \in Writers, input \in {<<>>, <<0>>} : WriteChunkStream(w, input, Nil)
    \/ \E w \in Writers : UploadChunk(w, TRUE)
    \/ \E w \in Writers : CreateFile(w, TRUE)
    \/ \E w \in Writers : CreateChunk(w, TRUE)
    \/ \E w \in Writers, ok \in BOOLEAN : InvalidateCache(w, ok)
    \/ \E r \in Readers2, id \in FileIDs : ReadBegin(r, id)
    \/ \E r \in Readers2, ok \in BOOLEAN : CacheLookup(r, ok)
    \/ \E r \in Readers2, ok \in BOOLEAN : DbLookup(r, ok)
    \/ \E r \in Readers2, ok \in BOOLEAN : CacheUpdate(r, ok)
    \/ \E r \in Readers2 : ChunkMetadata(r, TRUE)
    \/ \E r \in Readers2, i \in 1..MaxLen : FetchChunk(r, i, TRUE)
    \/ \E r \in Readers2 : FanIn(r)
    \/ \E id \in FileIDs : CacheExpire(id)

SpecCache == InitCache /\ [][NextCache]_vars

\* ---- reads of one file over stores that stay as they are --------------------
\* The bodies written: none, one chunk, and two chunks of which the last is
\* short.
OutcomeInputs == {<<>>, <<0>>, [i \in 1..(ChunkSize + 1) |-> 0]}

\* An object is changed out of band before the first read is sent: every
\* read that follows a finished write meets the same Blob Store.
CorruptBeforeReads(key, data) ==
    /\ \A r \in DOMAIN rd : rd[r].pc = "idle"
    /\ CorruptBlob(key, data)

\* A client sends its read of fileID once the write has been answered.
ReadAfterWrite(r, fileID) ==
    /\ \A w \in DOMAIN wr : wr[w].pc = "done"
    /\ ReadBegin(r, fileID)

\* One write whose every call succeeds, an object changed or not before the
\* reads, and two clients reading the file written once its write has been
\* answered: the cache calls and the file lookup
\* succeed, the entry may expire, the chunk query succeeds or fails, and the
\* downloads succeed in any order.
NextOutcome ==
    \/ \E w \in Writers : WriteBegin(w, "test.bin")
    \/ \E w \in Writers, input \in OutcomeInputs : WriteChunkStream(w, input, Nil)
    \/ \E w \in Writers : UploadChunk(w, TRUE)
    \/ \E w \in Writers : CreateFile(w, TRUE)
    \/ \E w \in Writers : CreateChunk(w, TRUE)
    \/ \E w \in Writers : InvalidateCache(w, TRUE)
    \/ \E key \in DOMAIN blobs, data \in SeqsUpTo(ChunkSize) : CorruptBeforeReads(key, data)
    \/ \E r \in Readers2 : ReadAfterWrite(r, NewUUID(1))
    \/ \E r \in Readers2 : CacheLookup(r, TRUE)
    \/ \E r \in Readers2 : DbLookup(r, TRUE)
    \/ \E r \in Readers2 : CacheUpdate(r, TRUE)
    \/ \E r \in Readers2, ok \in BOOLEAN : ChunkMetadata(r, ok)
    \/ \E r \in Readers2, i \in 1..MaxLen : FetchChunk(r, i, TRUE)
    \/ \E r \in Readers2 : FanIn(r)
    \/ \E id \in FileIDs : CacheExpire(id)

SpecOutcome == InitCache /\ [][NextOutcome]_vars

\* ---- ChunkStream on its own, for every chunk size -------------------------
\* The chunk sizes NewChunker is given.
Sizes == 1..(ChunkSize + 1)

\* ServeHTTP of a write whose handler holds a chunker of `size` bytes, up to
\* the entry of ChunkStream: the name is there, uuid.New() is drawn, and
\* ChunkStream starts with the empty slice of chunks, orderIndex 0,
\* totalSize 0.
ChunkBegin(input, size) ==
    /\ ck.pc = "idle"
    /\ \E w \in Writers :
         /\ wr[w].pc = "idle"
         /\ wr' = [wr EXCEPT ![w] = [@ EXCEPT !.pc = "chunking", !.name = "test.bin",
                                               !.input = input,
                                               !.fileID = NewUUID(nextID)]]
    /\ nextID' = nextID + 1
    /\ ck' = [ChunkerInit EXCEPT !.pc = "loop", !.input = input, !.size = size,
                                 !.rest = input]
    /\ UNCHANGED <<blobs, files, chunkRows, cache, rd, corrupted, populated>>

\* One iteration of the loop of ChunkStream.  make([]byte, c.chunkSize)
\* panics when the size is negative; with a buffer of 0 bytes io.ReadFull
\* returns 0 and no error, and the iteration changes nothing.
ChunkIterate ==
    /\ ck.pc = "loop"
    /\ IF ck.size < 0
       THEN ck' = [ck EXCEPT !.pc = "panic"]
       ELSE LET it == ChunkOnce(ck.rest, ck.size, ck.orderIndex, ck.chunks)
            IN  ck' = [ck EXCEPT !.chunks = it.chunks, !.orderIndex = it.orderIndex,
                                 !.totalSize = @ + it.n, !.rest = it.rest,
                                 !.pc = IF it.stop THEN "returned" ELSE "loop"]
    /\ UNCHANGED <<nextID, blobs, files, chunkRows, cache, wr, rd, corrupted, populated>>

\* ChunkStream returns chunks, totalSize and no error to ServeHTTP, which
\* goes on to uploadChunks (to saveMetadata when there is no chunk).
ChunkReturn ==
    /\ ck.pc = "returned"
    /\ \E w \in Writers :
         /\ wr[w].pc = "chunking"
         /\ wr' = [wr EXCEPT ![w] =
              [@ EXCEPT !.chunks = ck.chunks, !.totalSize = ck.totalSize,
                        !.pc = IF ck.chunks = <<>> THEN "createFile" ELSE "upload"]]
    /\ ck' = [ck EXCEPT !.pc = "handed"]
    /\ UNCHANGED <<nextID, blobs, files, chunkRows, cache, rd, corrupted, populated>>

\* The hashes VerifyChunkHash is given: the digest of every body, and a
\* string that is no digest.
Hashes == {ComputeHash(d) : d \in Inputs} \cup {""}

\* A call of VerifyChunkHash(data, expectedHash) on its own.
ChunkVerify(data, expectedHash) ==
    /\ ck.pc = "idle"
    /\ ck' = [ChunkerInit EXCEPT !.pc = "verified", !.input = data,
                                 !.expected = expectedHash,
                                 !.verdict = VerifyChunkHash(data, expectedHash)]
    /\ UNCHANGED <<nextID, blobs, files, chunkRows, cache, wr, rd, corrupted, populated>>

NextChunker ==
    \/ \E input \in Inputs, size \in Sizes : ChunkBegin(input, size)
    \/ ChunkIterate
    \/ ChunkReturn
    \/ \E w \in Writers, ok \in BOOLEAN : UploadChunk(w, ok)
    \/ \E w \in Writers, ok \in BOOLEAN : CreateFile(w, ok)
    \/ \E w \in Writers, ok \in BOOLEAN : CreateChunk(w, ok)
    \/ \E w \in Writers, ok \in BOOLEAN : InvalidateCache(w, ok)
    \/ \E data \in Inputs, h \in Hashes : ChunkVerify(data, h)

SpecChunker == Init /\ [][NextChunker]_vars

\* ---- ChunkStream with the chunk size of the configuration ------------------
\* The settings of CHUNK_SIZE_MB: unset (NilPtr), or a decimal integer.
EnvSettings == {NilPtr} \cup {<<n>> : n \in (0 - 1)..ChunkSize}

\* getEnvAsInt(key, defaultValue): the integer strconv.Atoi parses, the
\* default when the variable is unset.
GetEnvAsInt(setting, defaultValue) ==
    IF setting = NilPtr THEN defaultValue ELSE setting[1]

\* Config.GetChunkSizeBytes() for ChunkSizeMB = mb.
GetChunkSizeBytes(mb) == mb * 1024 * 1024

\* main: config.Load(), chunker.NewChunker(cfg.GetChunkSizeBytes()), and a
\* write request whose body ChunkStream splits.
ChunkConfigured(input, setting) ==
    ChunkBegin(input, GetChunkSizeBytes(GetEnvAsInt(setting, 1)))

NextConfig ==
    \/ \E input \in Inputs, setting \in EnvSettings : ChunkConfigured(input, setting)
    \/ ChunkIterate
    \/ ChunkReturn
    \/ \E w \in Writers, ok \in BOOLEAN : UploadChunk(w, ok)
    \/ \E w \in Writers, ok \in BOOLEAN : CreateFile(w, ok)
    \/ \E w \in Writers, ok \in BOOLEAN : CreateChunk(w, ok)
    \/ \E w \in Writers, ok \in BOOLEAN : InvalidateCache(w, ok)

SpecConfig == Init /\ [][NextConfig]_vars

\* ---- two writes side by side, no read ------------------------------------
\* Two PUT /write requests served concurrently, each on a body stream that
\* ends in any of StreamErrs.
Writers2 == {1, 2}

\* The bodies of the two writes: every length of 0..MaxLen, in bytes that are
\* all 0 or all 1, so that two bodies of one length differ in every chunk.
WriteInputs == {input \in Inputs : \A i \in DOMAIN input : input[i] = input[1]}

InitWrite ==
    /\ nextID = 1
    /\ blobs = << >>
    /\ files = << >>
    /\ chunkRows = {}
    /\ cache = << >>
    /\ wr = [w \in Writers2 |-> WriterInit]
    /\ rd = [r \in Readers |-> ReaderInit]
    /\ corrupted = 0
    /\ populated = {}
    /\ ck = ChunkerInit

NextWrite ==
    \/ \E w \in Writers2, name \in Names : WriteBegin(w, name)
    \/ \E w \in Writers2, input \in WriteInputs, e \in StreamErrs :
         WriteChunkStream(w, input, e)
    \/ \E w \in Writers2, ok \in BOOLEAN : UploadChunk(w, ok)
    \/ \E w \in Writers2, ok \in BOOLEAN : CreateFile(w, ok)
    \/ \E w \in Writers2, ok \in BOOLEAN : CreateChunk(w, ok)
    \/ \E w \in Writers2, ok \in BOOLEAN : InvalidateCache(w, ok)

SpecWrite == InitWrite /\ [][NextWrite]_vars

\* ---- properties ----------------------------------------------------------
\* The body of the write that generated fileID (the empty set of writes
\* cannot happen where this is used: the id has a file row or a chunk row).
WriterOf(fileID) == CHOOSE w \in Writers : wr[w].fileID = fileID
Written(fileID) == wr[WriterOf(fileID)].input
HasWriter(fileID) == \E w \in Writers : wr[w].fileID = fileID

\* The bytes the write of a chunk row uploaded for it.
UploadedData(chunk) == wr[WriterOf(chunk.FileID)].chunks[chunk.OrderIndex + 1].Data
PlannedContent(req) ==
    ReassembleChunks([i \in DOMAIN req.plan |-> UploadedData(req.plan[i])])

ReadOK(r) == rd[r].pc = "done" /\ rd[r].status = 200
ReadDone(r) == rd[r].pc = "done"

\* C1: every read that answers 200 returns exactly the bytes given to the
\* write that generated its file_id, in every reachable state and under every
\* interleaving, a read during the write's saveMetadata included.
C1_ReadReturnsWrittenBytes ==
    \A r \in Readers :
        ReadOK(r) => HasWriter(rd[r].fileID) /\ rd[r].body = Written(rd[r].fileID)

\* C2: round trip: a read that begins after the write has answered 201, with
\* no dependency failure and no out-of-band change, answers 200 with the
\* bytes of the write's body, for every body of 0..MaxLen bytes.
C2_RoundTrip ==
    \A r \in Readers :
        (ReadDone(r) /\ rd[r].afterWrite /\ rd[r].faults = 0 /\ corrupted = 0)
            => /\ rd[r].status = 200
               /\ rd[r].body = Written(rd[r].fileID)

C2_Witness ==
    \E r \in Readers :
        /\ ReadOK(r) /\ rd[r].afterWrite /\ rd[r].faults = 0 /\ corrupted = 0
        /\ Len(rd[r].body) > ChunkSize
        /\ Len(rd[r].body) % ChunkSize # 0
        /\ rd[r].body = Written(rd[r].fileID)

\* C3: a read that downloads bytes whose digest differs from the hash of the
\* chunk row fails with 500 and no content, and every 200 response consists
\* of the bytes that were uploaded for the chunk rows of its plan, never of
\* bytes changed out-of-band.
C3_IntegrityEnforced ==
    \A r \in Readers :
        /\ (ReadDone(r) /\ rd[r].mismatch # {})
              => rd[r].status = 500 /\ rd[r].body = <<>>
        /\ \A i \in rd[r].mismatch : rd[r].unit[i] = "err"
        /\ ReadOK(r) => rd[r].body = PlannedContent(rd[r])

C3_Witness ==
    \E r \in Readers :
        /\ ReadDone(r) /\ rd[r].mismatch # {} /\ rd[r].status = 500
        /\ corrupted > 0
        /\ \E i \in DOMAIN rd[r].unit : rd[r].unit[i] = "ok"

\* C4: a read whose chunk rows are not as many as the file row's chunk_count
\* does not answer 200.
C4_SegmentCountChecked ==
    \A r \in Readers :
        (ReadDone(r) /\ rd[r].file # NilPtr /\ rd[r].chunkQueries = 1
           /\ Len(rd[r].plan) # rd[r].file[1].ChunkCount)
            => rd[r].status # 200

\* C5: a read of an id without file row answers 404, which the failure of
\* the file query (500) never does.
C5_NotFoundIsDistinct ==
    \A r \in Readers :
        (ReadDone(r) /\ rd[r].fileRes = "norows") => rd[r].status = 404

\* C6: a read of an id without file row ends without any blob store call
\* and without the chunk query.
C6_NotFoundTouchesNothing ==
    \A r \in Readers :
        rd[r].fileRes = "norows"
            => /\ ReadDone(r)
               /\ rd[r].blobGets = 0
               /\ rd[r].chunkQueries = 0
               /\ rd[r].plan = <<>>

C6_Witness ==
    \E r \in Readers :
        /\ ReadDone(r) /\ rd[r].fileRes = "norows"
        /\ rd[r].blobGets = 0 /\ rd[r].chunkQueries = 0

\* C7: cache-aside: a cache entry exists only once a read has stored it, so
\* the first read of a file misses; a read that misses queries the file row
\* once and, when it finds it, goes on to store it in the cache; a read that
\* hits uses the cached file and never queries the file row.
C7_CacheAside ==
    /\ \A id \in FileIDs : CacheKey(id) \in DOMAIN cache => id \in populated
    /\ \A r \in Readers :
        /\ rd[r].cacheRes = "hit" => rd[r].fileQueries = 0 /\ rd[r].file # NilPtr
        /\ rd[r].cacheRes = "miss"
              => rd[r].fileQueries = (IF rd[r].pc = "dbGet" THEN 0 ELSE 1)
        /\ rd[r].fileRes = "found" => rd[r].pc = "cacheSet" \/ rd[r].setRes # "none"
        /\ rd[r].setRes = "ok" => rd[r].fileID \in populated

C7_Witness ==
    \E r \in Readers :
        /\ ReadOK(r) /\ rd[r].reads = 2 /\ rd[r].afterWrite
        /\ rd[r].cacheRes = "hit" /\ rd[r].fileQueries = 0
        /\ rd[r].body = Written(rd[r].fileID) /\ rd[r].body # <<>>

\* C8: a read whose cache lookup fails, and that meets no other failure,
\* goes on as on a miss: it queries the file row and answers 200 with the
\* file's content.
C8_CacheErrorIsNonFatal ==
    \A r \in Readers :
        (ReadDone(r) /\ rd[r].cacheRes = "err" /\ rd[r].faults = 1
           /\ rd[r].afterWrite /\ corrupted = 0)
            => /\ rd[r].fileQueries = 1
               /\ rd[r].status = 200
               /\ rd[r].body = Written(rd[r].fileID)

\* C9: a read whose cache update fails goes on with the file it found: with
\* no other failure and no out-of-band change it answers 200 with the content
\* of its plan (the whole body when it began after the write), and the cache
\* holds no entry for its id.
C9_CachePopulationNonFatal ==
    \A r \in Readers :
        rd[r].setRes = "err"
            => /\ CacheKey(rd[r].fileID) \notin DOMAIN cache
               /\ rd[r].file = <<files[rd[r].fileID]>>
               /\ (ReadDone(r) /\ rd[r].faults = 1 /\ corrupted = 0)
                     => /\ rd[r].status = 200
                        /\ rd[r].body = PlannedContent(rd[r])
                        /\ rd[r].afterWrite => rd[r].body = Written(rd[r].fileID)

C9_Witness ==
    \E r \in Readers :
        /\ ReadOK(r) /\ rd[r].setRes = "err" /\ rd[r].faults = 1
        /\ rd[r].afterWrite
        /\ Len(rd[r].body) > ChunkSize
        /\ CacheKey(rd[r].fileID) \notin DOMAIN cache

\* The chunk rows and objects a finished write has persisted.
Persisted(w) ==
    LET req == wr[w]
    IN  /\ req.fileID \in DOMAIN files
        /\ files[req.fileID].Size = Len(req.input)
        /\ files[req.fileID].ChunkCount = Len(req.chunks)
        /\ Len(req.chunkModels) = Len(req.chunks)
        /\ {c \in chunkRows : c.FileID = req.fileID}
              = {req.chunkModels[k] : k \in DOMAIN req.chunkModels}
        /\ \A k \in DOMAIN req.chunks :
              LET key == ObjectKey(req.fileID, req.chunks[k].OrderIndex)
              IN  /\ key \in DOMAIN blobs
                  /\ corrupted = 0 => blobs[key] = req.chunks[k].Data

\* C10: a write whose cache invalidation fails still answers 201 with its
\* file_id, the length of the body and the number of chunks, and the file
\* row, chunk rows and objects it persisted are in place.
C10_InvalidateFailureNonFatal ==
    \A w \in Writers :
        wr[w].invalidateErr
            => /\ wr[w].pc = "done"
               /\ wr[w].status = 201
               /\ wr[w].resp = <<[FileID |-> wr[w].fileID, FileName |-> wr[w].name,
                                  FileSize |-> Len(wr[w].input),
                                  ChunkCount |-> (Len(wr[w].input) + ChunkSize - 1) \div ChunkSize]>>
               /\ Persisted(w)

C10_Witness ==
    \E w \in Writers :
        /\ wr[w].invalidateErr /\ wr[w].status = 201
        /\ Len(wr[w].chunks) > 1
        /\ Persisted(w)

\* The objects of the plan as the Blob Store holds them, in plan order.
StoredContent(req) ==
    ReassembleChunks([i \in DOMAIN req.plan |-> blobs[req.plan[i].MinioObjectKey]])

\* C11: order independence: with the stored objects left alone, each finished
\* goroutine has filled the slot of its own loop index and no other, and a
\* read that answers 200 returns the objects of its plan in plan order,
\* whatever the order in which the goroutines finished.
C11_OrderIndependent ==
    \A r \in Readers :
        corrupted = 0 =>
            /\ rd[r].pc = "fetch" =>
                 \A i \in DOMAIN rd[r].unit :
                     rd[r].chunkData[i] =
                         IF rd[r].unit[i] = "ok"
                         THEN blobs[rd[r].plan[i].MinioObjectKey] ELSE <<>>
            /\ ReadOK(r) => rd[r].body = StoredContent(rd[r])

C11_Witness ==
    \E r \in Readers :
        /\ ReadOK(r) /\ corrupted = 0
        /\ rd[r].reordered
        /\ Len(rd[r].plan) = 2
        /\ blobs[rd[r].plan[1].MinioObjectKey] # blobs[rd[r].plan[2].MinioObjectKey]
        /\ rd[r].body = StoredContent(rd[r])

\* The read has run fetchChunksParallel to its end: GetChunks returned a plan
\* and every goroutine has finished.
Fetched(r) ==
    /\ ReadDone(r)
    /\ rd[r].chunkQueries = 1
    /\ rd[r].msg # "failed to get chunks: failed to query chunks"

\* C12: all or nothing: a read one of whose goroutines failed, by a download
\* error or a hash mismatch, answers 500 with no content byte, whatever the
\* other goroutines verified; a read none of whose goroutines failed answers
\* 200 with the bytes of every row of its plan.
C12_AllOrNothing ==
    \A r \in Readers :
        Fetched(r) =>
            IF \E i \in DOMAIN rd[r].unit : rd[r].unit[i] = "err"
            THEN rd[r].status = 500 /\ rd[r].body = <<>>
            ELSE /\ rd[r].status = 200
                 /\ Len(rd[r].body) = SumSizes(rd[r].plan)
                 /\ rd[r].body = PlannedContent(rd[r])

C12_Witness ==
    \E r \in Readers :
        /\ Fetched(r)
        /\ \E i, j \in DOMAIN rd[r].unit :
               rd[r].unit[i] = "ok" /\ rd[r].unit[j] = "err"
        /\ rd[r].status = 500
        /\ rd[r].body = <<>>

\* The chunk rows stored for a file id.
RowsOf(fileID) == {c \in chunkRows : c.FileID = fileID}

\* C13: a write that has answered 201 has every chunk's object under its key
\* (with the chunk's bytes, as long as nothing changed the store behind the
\* service), its file row, and exactly one chunk row per chunk; the size it
\* reports is the length of its body and the chunk_count it reports is the
\* number of chunk rows stored for its file id.
C13_SuccessMeansPersisted ==
    \A w \in Writers :
        wr[w].status = 201 =>
            LET req == wr[w]
                resp == req.resp[1]
            IN  /\ req.pc = "done"
                /\ req.fileID \in DOMAIN files
                /\ \A k \in DOMAIN req.chunks :
                     LET key == ObjectKey(req.fileID, req.chunks[k].OrderIndex)
                     IN  /\ key \in DOMAIN blobs
                         /\ corrupted = 0 => blobs[key] = req.chunks[k].Data
                         /\ Cardinality({c \in RowsOf(req.fileID) :
                                c.MinioObjectKey = key}) = 1
                /\ Cardinality(RowsOf(req.fileID)) = Len(req.chunks)
                /\ resp.FileID = req.fileID
                /\ resp.FileSize = Len(req.input)
                /\ resp.ChunkCount = Cardinality(RowsOf(req.fileID))

C13_Witness ==
    \E w \in Writers :
        /\ wr[w].status = 201 /\ ~wr[w].invalidateErr
        /\ Len(wr[w].input) = MaxLen
        /\ wr[w].resp[1].ChunkCount = Cardinality(RowsOf(wr[w].fileID))
        /\ wr[w].resp[1].ChunkCount > 1
        /\ \A c \in RowsOf(wr[w].fileID) : c.MinioObjectKey \in DOMAIN blobs

\* C14: every file row has chunk_count equal to the number of chunk rows
\* stored for its id and size equal to the sum of their sizes, in every
\* reachable state.
C14_FileRowMatchesChunkRows ==
    \A id \in DOMAIN files :
        /\ files[id].ChunkCount = Cardinality(RowsOf(id))
        /\ files[id].Size = SumSizes(GetChunksRows(id))

\* C15: the Metadata Store holds a file row only for a write that has
\* finished and answered 201, never for one that failed or is still running.
C15_FileRowOnlyAfterSuccess ==
    \A w \in Writers :
        wr[w].fileID \in DOMAIN files => wr[w].pc = "done" /\ wr[w].status = 201

\* C16: for every file id the order_index values of its chunk rows are
\* exactly 0 .. chunk_count - 1 of its file row, without gap or duplicate, in
\* every reachable state.
C16_OrderIndexRange ==
    \A id \in DOMAIN files :
        /\ {c.OrderIndex : c \in RowsOf(id)} = 0..(files[id].ChunkCount - 1)
        /\ \A c, d \in RowsOf(id) : c.OrderIndex = d.OrderIndex => c = d

\* C17: every chunk row refers to an object key whose upload has completed,
\* in the state in which the row is inserted and ever after, and, as long as
\* nothing changed the store behind the service, the hash of the row is the
\* digest of the bytes stored under that key and its size their length.
C17_ChunkRowHasVerifiedBlob ==
    \A c \in chunkRows :
        /\ c.MinioObjectKey \in DOMAIN blobs
        /\ corrupted = 0 =>
             /\ c.Hash = ComputeHash(blobs[c.MinioObjectKey])
             /\ c.Size = Len(blobs[c.MinioObjectKey])

C17_Witness ==
    /\ corrupted = 0
    /\ \E c, d \in chunkRows :
         /\ c.FileID = d.FileID
         /\ c.Size = ChunkSize /\ d.Size < ChunkSize
         /\ c.Hash = ComputeHash(blobs[c.MinioObjectKey])
         /\ d.Hash = ComputeHash(blobs[d.MinioObjectKey])

\* ---- properties of ChunkStream ------------------------------------------
\* ChunkStream has returned.
Returned == ck.pc \in {"returned", "handed"}

\* The least q with q * s >= n.
CeilDiv(n, s) == CHOOSE q \in 0..n : q * s >= n /\ (q = 0 \/ (q - 1) * s < n)

\* C18: chunk count law: for every chunk size of Sizes and every body of
\* 0..MaxLen bytes, ChunkStream returns ceil(n / s) chunks, none for the
\* empty body, and the response of the write reports that number as
\* chunk_count.
C18_ChunkCountLaw ==
    /\ Returned => Len(ck.chunks) = CeilDiv(Len(ck.input), ck.size)
    /\ \A w \in Writers :
         (ck.pc = "handed" /\ wr[w].status = 201) =>
             /\ wr[w].resp[1].ChunkCount = CeilDiv(Len(ck.input), ck.size)
             /\ wr[w].resp[1].ChunkCount = Cardinality(RowsOf(wr[w].fileID))

C18_Witness ==
    /\ ck.pc = "handed"
    /\ Len(ck.input) > ck.size
    /\ Len(ck.input) % ck.size # 0
    /\ \E w \in Writers :
         /\ wr[w].status = 201
         /\ wr[w].resp[1].ChunkCount = Len(ck.input) \div ck.size + 1

\* The data of the chunks, in the order of the slice.
ChunkBytes(chunks) == ReassembleChunks([k \in DOMAIN chunks |-> chunks[k].Data])

\* C19: for every chunk size and body, every chunk but the last has exactly
\* `size` bytes, the last has 1..size bytes, no chunk is empty, the chunks
\* concatenated in order are the body and totalSize is its length; during
\* the loop the chunks so far followed by the unread rest are the body.
C19_ChunkSizesAndContent ==
    /\ (ck.pc = "loop" \/ Returned) => ChunkBytes(ck.chunks) \o ck.rest = ck.input
    /\ Returned =>
         /\ \A k \in DOMAIN ck.chunks :
              /\ Len(ck.chunks[k].Data) = ck.chunks[k].Size
              /\ ck.chunks[k].Size >= 1
              /\ ck.chunks[k].Size <= ck.size
              /\ k < Len(ck.chunks) => ck.chunks[k].Size = ck.size
         /\ ChunkBytes(ck.chunks) = ck.input
         /\ ck.totalSize = Len(ck.input)

C19_Witness ==
    /\ Returned
    /\ Len(ck.chunks) > 1
    /\ ck.chunks[1].Size = ck.size
    /\ ck.chunks[Len(ck.chunks)].Size < ck.size
    /\ ck.totalSize = MaxLen

\* C20: the k-th chunk ChunkStream produces (counting from 0) has
\* order_index k, and the hash of each chunk is the digest of that chunk's
\* bytes, not of the buffer or of the stream.
C20_IndexAndHash ==
    \A k \in DOMAIN ck.chunks :
        /\ ck.chunks[k].OrderIndex = k - 1
        /\ ck.chunks[k].Hash = ComputeHash(ck.chunks[k].Data)
        /\ ck.chunks[k].Data = SubSeq(ck.input, (k - 1) * ck.size + 1,
                                      Min(k * ck.size, Len(ck.input)))

C20_Witness ==
    /\ Returned
    /\ Len(ck.chunks) = MaxLen
    /\ ck.chunks[MaxLen].OrderIndex = MaxLen - 1
    /\ ck.chunks[1].Hash # ck.chunks[MaxLen].Hash
    /\ ck.chunks[MaxLen].Hash = ComputeHash(<<ck.input[MaxLen]>>)

\* ---- properties of the write path ---------------------------------------
\* Every object uploaded and every chunk model and chunk row carries the key
\* prefix/{file_id}/{order_index} of its write and chunk, and the store holds
\* no object under any other key.
KeyConvention(prefix) ==
    /\ \A w \in DOMAIN wr : \A k \in DOMAIN wr[w].chunkModels :
         LET key == prefix \o "/" \o wr[w].fileID \o "/"
                       \o ToString(wr[w].chunks[k].OrderIndex)
         IN  /\ wr[w].chunkModels[k].MinioObjectKey = key
             /\ key \in DOMAIN blobs
    /\ \A c \in chunkRows :
         c.MinioObjectKey = prefix \o "/" \o c.FileID \o "/" \o ToString(c.OrderIndex)
    /\ \A key \in DOMAIN blobs :
         \E w \in DOMAIN wr : \E k \in DOMAIN wr[w].chunks :
             key = prefix \o "/" \o wr[w].fileID \o "/"
                      \o ToString(wr[w].chunks[k].OrderIndex)

\* C21, as the code has it: every chunk is uploaded under, and its chunk row's
\* minio_object_key is, exactly chunks/{file_id}/{order_index}.
C21_ChunksKey == KeyConvention("chunks")

\* C21, as stated: the key is segments/{file_id}/{order_index}.
C21_SegmentsKey == KeyConvention("segments")

C21_Witness ==
    \E c \in chunkRows :
        /\ c.OrderIndex = 1
        /\ c.FileID = "2"
        /\ c.MinioObjectKey = "chunks/2/1"
        /\ c.MinioObjectKey \in DOMAIN blobs

\* C22: a write whose body stream reported an error before it was exhausted,
\* whatever the error, has failed with no chunk, no upload, no file row, no
\* chunk row and no cache delete.
C22_StreamErrorAborts ==
    \A w \in DOMAIN wr :
        wr[w].streamErr # Nil =>
            /\ wr[w].pc = "done"
            /\ wr[w].status = 500
            /\ wr[w].chunks = <<>>
            /\ wr[w].puts = 0
            /\ ~wr[w].fileSaved
            /\ wr[w].saved = 0
            /\ wr[w].resp = NilPtr

\* C23: a write without a name answers 400 and nothing else has happened: its
\* body was not chunked, no uuid was generated for it, and no object, file row,
\* chunk row or cache entry exists or was asked for.
C23_EmptyNameRejected ==
    \A w \in DOMAIN wr :
        /\ (wr[w].pc # "idle" /\ wr[w].name = "") => wr[w].status = 400
        /\ wr[w].status = 400 =>
             /\ wr[w].pc = "done"
             /\ wr[w].fileID = "" /\ wr[w].chunks = <<>> /\ wr[w].input = <<>>
             /\ wr[w].puts = 0 /\ ~wr[w].fileSaved /\ wr[w].saved = 0
             /\ wr[w].resp = NilPtr
             /\ nextID = 1
             /\ blobs = << >> /\ files = << >> /\ chunkRows = {} /\ cache = << >>

C23_Witness ==
    \E w \in DOMAIN wr, r \in Readers :
        /\ wr[w].pc = "done" /\ wr[w].status = 400
        /\ nextID = 1
        /\ rd[r].pc = "done" /\ rd[r].fileID = "1" /\ rd[r].status = 500

\* C24: no compensating rollback: a write that stopped at an upload or at an
\* insert has answered 500, and every object it uploaded, its file row if it
\* inserted one and every chunk row it inserted are still in place, in every
\* state during and after the write.
C24_NoRollback ==
    \A w \in DOMAIN wr :
        LET req == wr[w]
        IN  /\ \A k \in DOMAIN req.chunkModels :
                 /\ req.chunkModels[k].MinioObjectKey \in DOMAIN blobs
                 /\ corrupted = 0 =>
                      blobs[req.chunkModels[k].MinioObjectKey] = req.chunks[k].Data
            /\ req.fileSaved => /\ req.fileID \in DOMAIN files
                                /\ files[req.fileID].Name = req.name
            /\ \A k \in 1..req.saved : req.chunkModels[k] \in chunkRows
            /\ (/\ req.pc = "done" /\ req.name # ""
                /\ \/ Len(req.chunkModels) < Len(req.chunks)
                   \/ ~req.fileSaved
                   \/ req.saved < Len(req.chunkModels))
                 => req.status = 500 /\ req.resp = NilPtr

C24_Witness ==
    \E w \in DOMAIN wr :
        /\ wr[w].pc = "done" /\ wr[w].status = 500
        /\ Len(wr[w].chunkModels) = 2
        /\ wr[w].fileSaved /\ wr[w].saved = 1
        /\ wr[w].fileID \in DOMAIN files
        /\ wr[w].chunkModels[1] \in chunkRows
        /\ wr[w].chunkModels[2].MinioObjectKey \in DOMAIN blobs

\* C25: two writes never share a file id, also when they carry the same name
\* and run side by side, and what is stored under a file id is what the write
\* of that id stored: its file row, its chunk rows and its objects are never
\* changed by the other write.
C25_WritesAreIsolated ==
    /\ \A v, w \in DOMAIN wr :
         (v # w /\ wr[v].fileID # "") => wr[v].fileID # wr[w].fileID
    /\ \A w \in DOMAIN wr :
         LET req == wr[w]
         IN  /\ req.fileSaved =>
                  files[req.fileID] =
                      [ID |-> req.fileID, Name |-> req.name, Size |-> req.totalSize,
                       ChunkCount |-> Len(req.chunks), CreatedAt |-> req.fileID]
             /\ req.fileID # "" =>
                  RowsOf(req.fileID) = {req.chunkModels[k] : k \in 1..req.saved}
             /\ \A k \in DOMAIN req.chunkModels :
                  blobs[req.chunkModels[k].MinioObjectKey] = req.chunks[k].Data

C25_Witness ==
    \E v, w \in DOMAIN wr :
        /\ v # w
        /\ wr[v].status = 201 /\ wr[w].status = 201
        /\ wr[v].name = wr[w].name
        /\ wr[v].fileID # wr[w].fileID
        /\ Len(wr[v].input) = MaxLen /\ Len(wr[w].input) = MaxLen
        /\ wr[v].chunks[1].Data # wr[w].chunks[1].Data
        /\ blobs[wr[v].chunkModels[1].MinioObjectKey] = wr[v].chunks[1].Data
        /\ blobs[wr[w].chunkModels[1].MinioObjectKey] = wr[w].chunks[1].Data

\* The hash ChunkStream records for `data` read as one chunk.
SplitHash(data) ==
    IF data = <<>> THEN ComputeHash(data)
    ELSE ChunkOnce(data, Len(data), 0, <<>>).chunks[1].Hash

\* C26: VerifyChunkHash(data, expected) is true exactly when expected is the
\* hash ChunkStream records for those bytes; it is true for the digest of the
\* data itself and for the digest of no other body of Inputs.
C26_VerifyIffSameDigest ==
    ck.pc = "verified" =>
        /\ ck.verdict <=> (ck.expected = SplitHash(ck.input))
        /\ ck.expected = ComputeHash(ck.input) => ck.verdict
        /\ ck.verdict =>
             \A d \in Inputs : ComputeHash(d) = ck.expected => d = ck.input

C26_Witness ==
    /\ ck.pc = "verified"
    /\ Len(ck.input) = MaxLen
    /\ ck.expected = ComputeHash(ck.input)
    /\ ck.verdict

\* C27: a read whose plan has N rows issues exactly N downloads, one per row:
\* while the goroutines run, the downloads issued are those of the goroutines
\* that have finished, none twice; the read returns only when all N have
\* finished, a failure of one neither stopping nor repeating another.
C27_OneGetPerChunk ==
    \A r \in Readers :
        /\ rd[r].pc = "fetch" =>
             /\ DOMAIN rd[r].unit = DOMAIN rd[r].plan
             /\ rd[r].blobGets =
                  Cardinality({i \in DOMAIN rd[r].unit : rd[r].unit[i] # "run"})
        /\ Fetched(r) =>
             /\ rd[r].blobGets = Len(rd[r].plan)
             /\ \A i \in DOMAIN rd[r].unit : rd[r].unit[i] # "run"

C27_Witness ==
    \E r \in Readers :
        /\ Fetched(r) /\ rd[r].status = 500
        /\ Len(rd[r].plan) = 2
        /\ rd[r].unit[1] = "err" /\ rd[r].unit[2] = "ok"
        /\ ~rd[r].reordered
        /\ rd[r].blobGets = 2

\* C28: a goroutine that has stored its bytes has stored them in the slot
\* whose index is the order_index of its row (slot i of the model is slot
\* i - 1 of the slice), for every plan GetChunks returns.
C28_SlotIsOrderIndex ==
    \A r \in Readers :
        rd[r].pc = "fetch" =>
            \A i \in DOMAIN rd[r].unit :
                rd[r].chunkData[i] # <<>> => rd[r].plan[i].OrderIndex = i - 1

\* One step of a read, seen from its slot array: while the goroutines run, a
\* step fills at most one slot, an empty one, and it is the slot of the
\* goroutine that finishes in that step; the step that leaves the fan-out
\* finds every goroutine finished, and when it answers 200 every slot holds
\* bytes whose digest is the hash of its row and the body is the slots in
\* order.
SlotStep(r) ==
    /\ (rd[r].pc = "fetch" /\ rd'[r].pc = "fetch") =>
         LET changed == {i \in DOMAIN rd[r].chunkData :
                             rd'[r].chunkData[i] # rd[r].chunkData[i]}
         IN  /\ Cardinality(changed) <= 1
             /\ \A i \in changed :
                  /\ rd[r].unit[i] = "run" /\ rd'[r].unit[i] = "ok"
                  /\ rd[r].chunkData[i] = <<>>
                  /\ \A j \in DOMAIN rd[r].unit \ {i} : rd'[r].unit[j] = rd[r].unit[j]
    /\ (rd[r].pc = "fetch" /\ rd'[r].pc = "done") =>
         /\ \A i \in DOMAIN rd[r].unit : rd[r].unit[i] # "run"
         /\ rd'[r].status = 200 =>
              /\ \A i \in DOMAIN rd[r].plan :
                   /\ rd[r].unit[i] = "ok"
                   /\ ComputeHash(rd[r].chunkData[i]) = rd[r].plan[i].Hash
              /\ rd'[r].body = ReassembleChunks(rd[r].chunkData)

\* C29: no two goroutines of a read write the same slot, each writes at most
\* one, reassembleFile reads the slots only after every goroutine has
\* finished, and on success every slot holds bytes whose digest is the hash
\* recorded for its chunk.
C29_DisjointSlots == [][\A r \in Readers : SlotStep(r)]_vars

C29_Witness ==
    \E r \in Readers :
        /\ rd[r].pc = "fetch"
        /\ Len(rd[r].plan) = 2
        /\ rd[r].reordered
        /\ \A i \in DOMAIN rd[r].unit :
             /\ rd[r].unit[i] = "ok"
             /\ ComputeHash(rd[r].chunkData[i]) = rd[r].plan[i].Hash
        /\ rd[r].chunkData[1] # rd[r].chunkData[2]

\* C30: order of the steps of a write: when the first upload is issued the
\* whole body has been chunked; when the file row or a chunk row is inserted
\* every chunk has been uploaded with success; the cache delete is issued
\* only with the file row and every chunk row inserted.
C30_WriteStepOrder ==
    \A w \in DOMAIN wr :
        LET req == wr[w]
        IN  /\ req.puts > 0 =>
                 /\ req.chunks # <<>>
                 /\ ChunkBytes(req.chunks) = req.input
            /\ (req.fileSaved \/ req.saved > 0 \/ req.pc \in {"createFile", "createChunk"}) =>
                 /\ req.puts = Len(req.chunks)
                 /\ Len(req.chunkModels) = Len(req.chunks)
                 /\ \A k \in DOMAIN req.chunks :
                      ObjectKey(req.fileID, req.chunks[k].OrderIndex) \in DOMAIN blobs
            /\ req.saved > 0 => req.fileSaved
            /\ (req.pc = "invalidate" \/ req.status = 201) =>
                 /\ req.fileSaved
                 /\ req.saved = Len(req.chunks)

C30_Witness ==
    \E w \in DOMAIN wr :
        /\ wr[w].status = 201
        /\ Len(wr[w].chunks) = 2
        /\ wr[w].puts = 2 /\ wr[w].fileSaved /\ wr[w].saved = 2
        /\ wr[w].streamErr = Nil

\* C31: every chunk row has the file row of its file id in the files table,
\* in every state: a write inserts its file row before its first chunk row.
C31_FileRowBeforeChunkRows ==
    /\ \A c \in chunkRows : c.FileID \in DOMAIN files
    /\ \A w \in DOMAIN wr :
         (wr[w].saved > 0 \/ wr[w].pc = "createChunk") =>
             wr[w].fileSaved /\ wr[w].fileID \in DOMAIN files

C31_Witness ==
    \E w \in DOMAIN wr :
        /\ wr[w].pc = "createChunk" /\ wr[w].saved = 1
        /\ \E c \in chunkRows : c.FileID = wr[w].fileID /\ c.FileID \in DOMAIN files

\* ---- properties of the cache ---------------------------------------------
\* C32: under every interleaving of two reads and a write, two misses for the
\* same id included, the cache holds entries only under the keys of file ids
\* that have a file row, and the document of each entry decodes to that row.
C32_CacheEntryIsFileRow ==
    /\ DOMAIN cache \subseteq {CacheKey(id) : id \in DOMAIN files}
    /\ \A id \in DOMAIN files :
         CacheKey(id) \in DOMAIN cache =>
             UnmarshalFile(cache[CacheKey(id)]) = files[id]

C32_Witness ==
    /\ \A r \in DOMAIN rd :
         /\ rd[r].fileID = "1"
         /\ rd[r].cacheRes = "miss" /\ rd[r].fileRes = "found"
         /\ rd[r].setRes = "ok"
         /\ rd[r].pc = "getChunks"
    /\ Cardinality(DOMAIN rd) = 2
    /\ CacheKey("1") \in DOMAIN cache
    /\ UnmarshalFile(cache[CacheKey("1")]) = files["1"]
    /\ files["1"].ChunkCount = 1

\* C33: a write uploads its chunks one at a time in ascending order_index and
\* stops at the first upload that fails: the objects stored for it are those
\* of the chunks before the failed one, no chunk after it was uploaded or even
\* tried, and neither a file row nor a chunk row was inserted.
C33_UploadsStopAtFirstFailure ==
    \A w \in DOMAIN wr :
        LET req == wr[w]
            done == Len(req.chunkModels)
        IN  /\ \A k \in DOMAIN req.chunkModels : req.chunkModels[k].OrderIndex = k - 1
            /\ req.puts \in {done, done + 1}
            /\ \A k \in DOMAIN req.chunks :
                 ObjectKey(req.fileID, req.chunks[k].OrderIndex) \in DOMAIN blobs
                     <=> k <= done
            /\ req.puts = done + 1 =>
                 /\ req.pc = "done" /\ req.status = 500
                 /\ done < Len(req.chunks)
                 /\ ~req.fileSaved /\ req.saved = 0
                 /\ req.fileID \notin DOMAIN files
                 /\ RowsOf(req.fileID) = {}

C33_Witness ==
    \E w \in DOMAIN wr :
        /\ wr[w].pc = "done" /\ wr[w].status = 500
        /\ Len(wr[w].chunks) = 2
        /\ wr[w].puts = 1 /\ wr[w].chunkModels = <<>>
        /\ ObjectKey(wr[w].fileID, 1) \notin DOMAIN blobs
        /\ wr[w].fileID \notin DOMAIN files

\* C34: the error of a failed read is the error of a goroutine that failed,
\* of the kind of its failure (download or hash mismatch), and names the
\* index of that goroutine's chunk; a goroutine that stored its bytes is
\* never the one reported.
C34_ErrorNamesFailedChunk ==
    \A r \in Readers :
        (Fetched(r) /\ rd[r].status = 500) =>
            \E i \in DOMAIN rd[r].unit :
                /\ rd[r].unit[i] = "err"
                /\ \/ /\ i \notin rd[r].mismatch
                      /\ rd[r].msg = "failed to fetch chunks: failed to download chunk "
                                        \o ToString(rd[r].plan[i].OrderIndex)
                   \/ /\ i \in rd[r].mismatch
                      /\ rd[r].msg = "failed to fetch chunks: hash mismatch for chunk "
                                        \o ToString(rd[r].plan[i].OrderIndex)

C34_Witness ==
    \E r \in Readers :
        /\ Fetched(r) /\ rd[r].status = 500
        /\ Len(rd[r].plan) = 2
        /\ rd[r].unit[1] = "err" /\ rd[r].unit[2] = "ok"
        /\ rd[r].mismatch = {1}
        /\ rd[r].msg = "failed to fetch chunks: hash mismatch for chunk 0"

\* No goroutine of a read is blocked and the coordinator is not stuck: the
\* error channel holds one error per failed goroutine, every goroutine still
\* running can finish whether its download succeeds or fails, and with every
\* goroutine finished wg.Wait() returns.
FanInCanProceed(r) ==
    rd[r].pc = "fetch" =>
        /\ Len(rd[r].errChan) =
             Cardinality({i \in DOMAIN rd[r].unit : rd[r].unit[i] = "err"})
        /\ \A i \in DOMAIN rd[r].unit :
             rd[r].unit[i] = "run" =>
                 \A ok \in BOOLEAN : ENABLED FetchChunk(r, i, ok)
        /\ (\A i \in DOMAIN rd[r].unit : rd[r].unit[i] # "run") => ENABLED FanIn(r)

\* C35: the fan-in of a read never deadlocks, for every number of chunks (0
\* included) and every combination of failing goroutines: no goroutine blocks
\* when it reports its error, and a read that has started its goroutines
\* returns.
C35_FanInTerminates ==
    /\ [](\A r \in Readers : FanInCanProceed(r))
    /\ \A r \in Readers : (rd[r].pc = "fetch") ~> (rd[r].pc = "done")

C35_Witness ==
    \E r \in Readers :
        /\ rd[r].pc = "fetch"
        /\ Len(rd[r].plan) = 2
        /\ Len(rd[r].errChan) = 2
        /\ \A i \in DOMAIN rd[r].unit : rd[r].unit[i] = "err"
        /\ ENABLED FanIn(r)

\* The loop of ChunkStream is running on a chunk size for which it ends:
\* the size is positive, and the iteration about to run either stops the
\* loop or consumes a byte of the stream.
SplitAdvances ==
    ck.pc = "loop" =>
        /\ ck.size > 0
        /\ LET it == ChunkOnce(ck.rest, ck.size, ck.orderIndex, ck.chunks)
           IN  it.stop \/ Len(it.rest) < Len(ck.rest)

\* C36: ChunkStream terminates for every chunk size the configuration can
\* supply (GetChunkSizeBytes of any integer CHUNK_SIZE_MB): the chunker never
\* runs with a size that is not positive, never panics, and every iteration
\* of its loop stops or consumes input.
C36_SplitTerminates ==
    /\ ck.pc # "panic"
    /\ ck.pc \in {"loop", "returned", "handed"} => ck.size > 0
    /\ SplitAdvances

\* What the client of a finished read observes: the status, the body, the
\* error text, and on a 200 the file name of the Content-Disposition header
\* and the Content-Length.
ReadOutcome(r) ==
    [status |-> rd[r].status, body |-> rd[r].body, msg |-> rd[r].msg,
     filename |-> IF rd[r].status = 200 THEN rd[r].file[1].Name ELSE "",
     length |-> IF rd[r].status = 200 THEN Len(rd[r].body) ELSE 0]

\* The dependency calls that failed in the read r after its file record was
\* resolved: the failures of the cache calls and of the file lookup taken off.
FetchFaults(r) ==
    rd[r].faults - (IF rd[r].cacheRes = "err" THEN 1 ELSE 0)
                 - (IF rd[r].fileRes = "err" THEN 1 ELSE 0)
                 - (IF rd[r].setRes = "err" THEN 1 ELSE 0)

\* Two finished reads of the same file, both sent after its write had
\* completed and over the same stores, with the same dependency failures and
\* the same order of their goroutines: r1 took its file record from the
\* cache, r2 from the files table.
HitAndMiss(r1, r2) ==
    /\ rd[r1].pc = "done" /\ rd[r2].pc = "done"
    /\ rd[r1].fileID = rd[r2].fileID
    /\ rd[r1].afterWrite /\ rd[r2].afterWrite
    /\ rd[r1].cacheRes = "hit"
    /\ rd[r2].cacheRes = "miss" /\ rd[r2].fileRes = "found"
    /\ FetchFaults(r1) = FetchFaults(r2)
    /\ rd[r1].reordered = rd[r2].reordered

\* C37: with the same contents of the Metadata Store and the Blob Store, a
\* read answers the same whether its file record came from the cache or from
\* the Metadata Store: a read served by a cache hit and a read served by a
\* miss and the files table have the same status, the same body and file
\* name on a 200, and the same error text on a failure, be it a failed chunk
\* query or a hash mismatch of a changed object.
C37_CacheDoesNotChangeOutcome ==
    \A r1 \in DOMAIN rd, r2 \in DOMAIN rd :
        HitAndMiss(r1, r2) =>
            /\ ReadOutcome(r1) = ReadOutcome(r2)
            /\ rd[r1].file = rd[r2].file
            /\ rd[r1].mismatch = rd[r2].mismatch

C37_Witness ==
    \E r1 \in DOMAIN rd, r2 \in DOMAIN rd :
        /\ HitAndMiss(r1, r2)
        /\ corrupted = 1
        /\ FetchFaults(r1) = 0
        /\ Len(rd[r1].plan) = 2
        /\ ReadOutcome(r1).status = 500
        /\ ReadOutcome(r1).msg = "failed to fetch chunks: hash mismatch for chunk 1"
        /\ ReadOutcome(r2) = ReadOutcome(r1)

\* The order_index values of the objects the Blob Store holds for fileID.
BlobIndices(fileID) ==
    {i \in 0..MaxLen : ObjectKey(fileID, i) \in DOMAIN blobs}

\* The order_index values of the rows the chunks table holds for fileID.
RowIndices(fileID) == {c.OrderIndex : c \in RowsOf(fileID)}

IsPrefix(indices) == \E k \in 0..(MaxLen + 1) : indices = 0..(k - 1)

\* C38: in every state, those during and after a failed write included, the
\* objects uploaded for a file and the chunk rows inserted for it each cover
\* a prefix 0..k-1 of the order_index values, and every index that has a row
\* has an object.
C38_PrefixesOnly ==
    \A id \in {wr[w].fileID : w \in DOMAIN wr} \cup {c.FileID : c \in chunkRows} :
        /\ IsPrefix(BlobIndices(id))
        /\ IsPrefix(RowIndices(id))
        /\ RowIndices(id) \subseteq BlobIndices(id)

C38_Witness ==
    \E w \in DOMAIN wr :
        /\ wr[w].pc = "done" /\ wr[w].status = 500
        /\ BlobIndices(wr[w].fileID) = {0, 1}
        /\ RowIndices(wr[w].fileID) = {0}

\* A step of the read r: the Blob Store and the Metadata Store are as before;
\* the cache is as before too, unless the step is the cache update that
\* follows a miss and a file row found, and then only the entry of the
\* requested file id differs.
ReadFrame(r) ==
    rd'[r] # rd[r] =>
        /\ blobs' = blobs /\ files' = files /\ chunkRows' = chunkRows
        /\ cache' # cache =>
             /\ rd[r].pc = "cacheSet"
             /\ rd[r].cacheRes = "miss" /\ rd[r].fileRes = "found"
             /\ DOMAIN cache' = DOMAIN cache \cup {"file:" \o rd[r].fileID}
             /\ \A k \in DOMAIN cache \ {"file:" \o rd[r].fileID} : cache'[k] = cache[k]

\* C39: a read leaves the Blob Store and the Metadata Store unchanged in every
\* outcome; of the cache only the entry of the requested file id can change,
\* and it is set only after a miss followed by a successful file lookup.
C39_ReadFrame == [][\A r \in Readers : ReadFrame(r)]_vars

C39_Witness ==
    \E r \in Readers :
        /\ rd[r].pc = "done" /\ rd[r].status = 500
        /\ rd[r].cacheRes = "miss" /\ rd[r].fileRes = "found" /\ rd[r].setRes = "ok"
        /\ DOMAIN cache = {"file:" \o rd[r].fileID}
        /\ DOMAIN blobs # {} /\ chunkRows # {}

\* C40: distinct (file_id, order_index) pairs have distinct object keys, and
\* no upload stores its bytes under the key of another chunk: the keys of the
\* chunks uploaded are pairwise different whenever file id or order_index
\* differ, and each object of the Blob Store is the bytes of the one chunk
\* whose key it is stored under.
C40_KeysAreDistinct ==
    \A v \in DOMAIN wr :
        \A j \in DOMAIN wr[v].chunkModels :
            LET m == wr[v].chunkModels[j]
            IN  /\ m.MinioObjectKey = ObjectKey(m.FileID, m.OrderIndex)
                /\ blobs[m.MinioObjectKey] = wr[v].chunks[j].Data
                /\ \A w \in DOMAIN wr :
                     \A k \in DOMAIN wr[w].chunkModels :
                         LET n == wr[w].chunkModels[k]
                         IN  (m.FileID # n.FileID \/ m.OrderIndex # n.OrderIndex)
                             => m.MinioObjectKey # n.MinioObjectKey

C40_Witness ==
    \E v \in DOMAIN wr, w \in DOMAIN wr :
        /\ v # w
        /\ Len(wr[v].chunkModels) = 2 /\ Len(wr[w].chunkModels) = 2
        /\ wr[v].input # wr[w].input
        /\ Cardinality(DOMAIN blobs) = 4
        /\ wr[v].chunkModels[1].OrderIndex = wr[w].chunkModels[1].OrderIndex
        /\ wr[v].chunkModels[1].MinioObjectKey # wr[w].chunkModels[1].MinioObjectKey

============================================================================
